---- MODULE Spec2Model ----
(***************************************************************************)
(* Model of the tag-driven notification engine: the date utilities          *)
(* (date-utils), the ScheduleGenerator (scheduler.ts) and the               *)
(* NotificationDispatcher (dispatcher.ts).                                  *)
(*                                                                         *)
(* Instants are whole seconds since 1984-01-01T00:00:00 of a local          *)
(* calendar without daylight-saving shifts (local zone = UTC), so a         *)
(* JavaScript Date and a moment() of it denote the same integer.            *)
(***************************************************************************)
EXTENDS Integers, Sequences, FiniteSets, TLC

\* stands for a JavaScript null result / a thrown error where an instant is expected
NoDate == -1

(***************************************************************************)
(* Calendar arithmetic as moment.js performs it (Gregorian, 1984..2051).    *)
(***************************************************************************)
EpochYear == 1984
SecPerMin == 60
SecPerHour == 3600
SecPerDay == 86400

Min(a, b) == IF a <= b THEN a ELSE b

IsLeap(y) == (y % 4 = 0 /\ y % 100 # 0) \/ y % 400 = 0

DaysInMonth(y, m) ==
    IF m = 2 THEN (IF IsLeap(y) THEN 29 ELSE 28)
    ELSE IF m \in {4, 6, 9, 11} THEN 30 ELSE 31

\* days from the epoch to January 1st of year y (every 4th year is leap in range)
DaysBeforeYear(y) == 365 * (y - EpochYear) + ((y - EpochYear + 3) \div 4)

RECURSIVE DaysBeforeMonth(_, _)
DaysBeforeMonth(y, m) ==
    IF m = 1 THEN 0 ELSE DaysBeforeMonth(y, m - 1) + DaysInMonth(y, m - 1)

\* the instant of a local wall-clock reading (new Date(y, m-1, d, h, mi, s))
FromCivil(y, m, d, h, mi, s) ==
    (DaysBeforeYear(y) + DaysBeforeMonth(y, m) + (d - 1)) * SecPerDay
        + h * SecPerHour + mi * SecPerMin + s

YearOfDay(n) ==
    LET g == EpochYear + (n \div 366)
    IN  CHOOSE y \in g .. (g + 1) : DaysBeforeYear(y) <= n /\ n < DaysBeforeYear(y + 1)

MonthOfDay(y, k) ==
    CHOOSE m \in 1 .. 12 :
        DaysBeforeMonth(y, m) <= k /\ k < DaysBeforeMonth(y, m) + DaysInMonth(y, m)

\* the wall-clock fields of an instant (moment(date).year(), .month(), ...)
CivilOf(t) ==
    LET n   == t \div SecPerDay
        tod == t % SecPerDay
        y   == YearOfDay(n)
        k   == n - DaysBeforeYear(y)
        m   == MonthOfDay(y, k)
    IN  [year |-> y, month |-> m, day |-> k - DaysBeforeMonth(y, m) + 1,
         hh |-> tod \div SecPerHour, mm |-> (tod % SecPerHour) \div SecPerMin,
         ss |-> tod % SecPerMin]

\* (the argument is bound to a value once, as a call binds it)
ToCivil(t) == CHOOSE c \in {CivilOf(u) : u \in {t}} : TRUE

\* m.add(n, 'months'): move n months, clamp the day to the end of the month
AddMonthsCivil(c, n) ==
    LET idx == c.year * 12 + (c.month - 1) + n
        y   == idx \div 12
        m   == (idx % 12) + 1
    IN  FromCivil(y, m, Min(c.day, DaysInMonth(y, m)), c.hh, c.mm, c.ss)

AddMonths(t, n) == CHOOSE r \in {AddMonthsCivil(c, k) : c \in {ToCivil(t)}, k \in {n}} : TRUE

\* m.add(n, 'years') is m.add(12 n, 'months') in moment
AddYears(t, n) == AddMonths(t, 12 * n)
AddDays(t, n) == t + n * SecPerDay
AddWeeks(t, n) == t + n * 7 * SecPerDay

(***************************************************************************)
(* date-utils.  Duration and time strings are sequences of one-character    *)
(* strings, e.g. <<"-", "P", "1", "D">>, matched as the regular expression  *)
(* of applyISO8601Duration matches them.                                    *)
(***************************************************************************)
Digits == {"0", "1", "2", "3", "4", "5", "6", "7", "8", "9"}

DigitVal(c) ==
    CASE c = "0" -> 0 [] c = "1" -> 1 [] c = "2" -> 2 [] c = "3" -> 3
      [] c = "4" -> 4 [] c = "5" -> 5 [] c = "6" -> 6 [] c = "7" -> 7
      [] c = "8" -> 8 [] c = "9" -> 9

\* the position after the longest run of digits of s that starts at i  (\d+)
RECURSIVE DigitsEnd(_, _)
DigitsEnd(s, i) ==
    IF i <= Len(s) /\ s[i] \in Digits THEN DigitsEnd(s, i + 1) ELSE i

\* parseInt of the digits s[i .. j-1]
RECURSIVE parseInt(_, _, _)
parseInt(s, i, j) ==
    IF j <= i THEN 0 ELSE parseInt(s, i, j - 1) * 10 + DigitVal(s[j - 1])

\* one optional group (?:(\d+)L)? tried at position i
Component(s, i, letter) ==
    LET j == DigitsEnd(s, i)
    IN  IF j > i /\ j <= Len(s) /\ s[j] = letter
        THEN [val |-> parseInt(s, i, j), next |-> j + 1]
        ELSE [val |-> 0, next |-> i]

\* the optional groups for `letters`, tried in order from position i
RECURSIVE Components(_, _, _, _)
Components(s, i, letters, vals) ==
    IF Len(letters) = 0 THEN [next |-> i, vals |-> vals]
    ELSE Components(s, Component(s, i, Head(letters)).next, Tail(letters),
                    Append(vals, Component(s, i, Head(letters)).val))

\* what follows the P: the date groups, then the optional T and its groups
DurationBody(s, p0, datePart) ==
    LET hasT == datePart.next <= Len(s) /\ s[datePart.next] = "T"
        timePart == IF hasT
                    THEN Components(s, datePart.next + 1, <<"H", "M", "S">>, << >>)
                    ELSE [next |-> datePart.next, vals |-> <<0, 0, 0>>]
    IN  IF timePart.next # Len(s) + 1 THEN [ok |-> FALSE]
        ELSE [ok |-> TRUE, neg |-> s[1] = "-",
              years |-> datePart.vals[1], months |-> datePart.vals[2],
              weeks |-> datePart.vals[3], days |-> datePart.vals[4],
              hours |-> timePart.vals[1], minutes |-> timePart.vals[2],
              seconds |-> timePart.vals[3]]

\* duration.match(/^([+-])?P(?:(\d+)Y)?(?:(\d+)M)?(?:(\d+)W)?(?:(\d+)D)?
\*                 (?:T(?:(\d+)H)?(?:(\d+)M)?(?:(\d+)S)?)?$/)
matchDuration(s) ==
    LET p0 == IF Len(s) >= 1 /\ s[1] \in {"+", "-"} THEN 2 ELSE 1
    IN  IF ~(p0 <= Len(s) /\ s[p0] = "P") THEN [ok |-> FALSE]
        ELSE CHOOSE r \in {DurationBody(s, p0, d) :
                              d \in {Components(s, p0 + 1, <<"Y", "M", "W", "D">>, << >>)}} : TRUE

\* (a variant in which the sign does not reach the time components)
AddDuration_dateSignOnly(date, match) ==
    LET sign == IF match.neg THEN -1 ELSE 1
    IN  AddDays(AddWeeks(AddMonths(AddYears(date, match.years * sign),
                                   match.months * sign),
                         match.weeks * sign),
                match.days * sign)
            + match.hours * SecPerHour
            + match.minutes * SecPerMin
            + match.seconds

\* m.add(years, 'years'); m.add(months, 'months'); ... m.add(seconds, 'seconds')
AddDuration(date, match) ==
    LET sign == IF match.neg THEN -1 ELSE 1
    IN  AddDays(AddWeeks(AddMonths(AddYears(date, match.years * sign),
                                   match.months * sign),
                         match.weeks * sign),
                match.days * sign)
            + match.hours * sign * SecPerHour
            + match.minutes * sign * SecPerMin
            + match.seconds * sign

\* applyISO8601Duration: NoDate stands for the thrown "Invalid ISO 8601 duration"
applyISO8601Duration(date, duration) ==
    CHOOSE r \in {IF match.ok THEN AddDuration(date, match) ELSE NoDate :
                     match \in {matchDuration(duration)}} : TRUE

\* the optional groups (?:\d+L)? for `letters`, tried in order from position i:
\* the position after them
RECURSIVE SkipComponents(_, _, _)
SkipComponents(s, i, letters) ==
    IF Len(letters) = 0 THEN i
    ELSE SkipComponents(s,
            IF DigitsEnd(s, i) > i /\ DigitsEnd(s, i) <= Len(s)
                  /\ s[DigitsEnd(s, i)] = Head(letters)
            THEN DigitsEnd(s, i) + 1 ELSE i,
            Tail(letters))

SkipTimePart(s, d) ==
    IF d <= Len(s) /\ s[d] = "T" THEN SkipComponents(s, d + 1, <<"H", "M", "S">>) ELSE d

\* RuleValidator.isValidISO8601Duration:
\* /^[+-]?P(?:\d+Y)?(?:\d+M)?(?:\d+W)?(?:\d+D)?(?:T(?:\d+H)?(?:\d+M)?(?:\d+S)?)?$/.test(duration)
isValidISO8601Duration(s) ==
    LET p0 == IF Len(s) >= 1 /\ s[1] \in {"+", "-"} THEN 2 ELSE 1
    IN  /\ p0 <= Len(s)
        /\ s[p0] = "P"
        /\ SkipTimePart(s, SkipComponents(s, p0 + 1, <<"Y", "M", "W", "D">>)) = Len(s) + 1

\* RuleValidator.isValidTime: /^([01]\d|2[0-3]):([0-5]\d)$/.test(time)
isValidTime(time) ==
    /\ Len(time) = 5
    /\ \/ time[1] \in {"0", "1"} /\ time[2] \in Digits
       \/ time[1] = "2" /\ time[2] \in {"0", "1", "2", "3"}
    /\ time[3] = ":"
    /\ time[4] \in {"0", "1", "2", "3", "4", "5"}
    /\ time[5] \in Digits

\* the characters of the field names of the model
FieldChars(field) ==
    CASE field = "due" -> <<"d", "u", "e">>
      [] field = "meet" -> <<"m", "e", "e", "t">>
      [] field = "start-date" -> <<"s", "t", "a", "r", "t", "-", "d", "a", "t", "e">>
      [] field = "due date" -> <<"d", "u", "e", " ", "d", "a", "t", "e">>
      [] OTHER -> << >>

FieldAlphabet ==
    Digits \cup {"a", "d", "e", "m", "r", "s", "t", "u", "D", "Z", "_", "-"}

\* RuleValidator.isValidField: /^[a-zA-Z0-9_-]+$/.test(field) && field.length > 0
isValidField(field) ==
    /\ Len(FieldChars(field)) > 0
    /\ \A i \in 1 .. Len(FieldChars(field)) : FieldChars(field)[i] \in FieldAlphabet

\* messageTemplate.trim().length === 0
IsBlank(template) == \A i \in 1 .. Len(template) : template[i] \in {"", " "}

\* RuleValidator.validateRule: the errors of a rule
validateRule(rule) ==
    (IF ~isValidField(rule.field) THEN {"field"} ELSE {})
    \cup (IF Len(rule.defaultTime) > 0 /\ ~isValidTime(rule.defaultTime)
          THEN {"defaultTime"} ELSE {})
    \cup (IF \E i \in 1 .. Len(rule.offsets) : ~isValidISO8601Duration(rule.offsets[i])
          THEN {"offset"} ELSE {})
    \cup (IF IsBlank(rule.messageTemplate) THEN {"messageTemplate"} ELSE {})
    \cup (IF Len(rule.channels) = 0 THEN {"channels"} ELSE {})

\* time.split(':').map(s => parseInt(s)) for a time string "HH:MM"
SetTime(c, time) ==
    LET colon == CHOOSE i \in 1 .. Len(time) : time[i] = ":"
        hours == parseInt(time, 1, DigitsEnd(time, 1))
        minutes == parseInt(time, colon + 1, DigitsEnd(time, colon + 1))
    IN  FromCivil(c.year, c.month, c.day, hours, minutes, 0)

combineDateAndTime(date, time) ==
    CHOOSE r \in {SetTime(c, time) : c \in {ToCivil(date)}} : TRUE

\* (an addition of a cadence unit that does not move the instant)
AddUnit_noProgress(t, repeat) == t

\* m.isSameOrBefore(from) / m.add(1, unit) loops of getNextOccurrence
AddUnit(t, repeat) ==
    CASE repeat = "daily" -> AddDays(t, 1)
      [] repeat = "weekly" -> AddWeeks(t, 1)
      [] repeat = "monthly" -> AddMonths(t, 1)
      [] repeat = "yearly" -> AddYears(t, 1)

RECURSIVE AdvanceWhileSameOrBefore(_, _, _)
AdvanceWhileSameOrBefore(m, repeat, from) ==
    IF m <= from THEN AdvanceWhileSameOrBefore(AddUnit(m, repeat), repeat, from)
    ELSE m

RepeatPattern == {"none", "daily", "weekly", "monthly", "yearly"}

getNextOccurrence(date, repeat, fromDate) ==
    IF repeat \in {"daily", "weekly", "monthly", "yearly"}
    THEN AdvanceWhileSameOrBefore(date, repeat, fromDate)
    ELSE IF repeat = "none" THEN (IF date > fromDate THEN date ELSE NoDate)
    ELSE NoDate

\* Date.prototype.toISOString(): always carries the "THH:mm:ss" part
toISOString(t) == [civil |-> ToCivil(t), hasT |-> TRUE]

\* /T\d{2}:\d{2}/.test(dateStr) || /\d{2}:\d{2}/.test(dateStr)
hasTimeComponent(dateStr) == dateStr.hasT

Pad2(n) == IF n < 10 THEN "0" \o ToString(n) ELSE ToString(n)

\* formatDate(date, 'YYYY-MM-DD')
FormatCivil(c) == ToString(c.year) \o "-" \o Pad2(c.month) \o "-" \o Pad2(c.day)

formatDate(date) == CHOOSE r \in {FormatCivil(c) : c \in {ToCivil(date)}} : TRUE

\* the concatenation of a sequence of sequences
RECURSIVE ConcatFrom(_, _)
ConcatFrom(seqs, i) == IF i > Len(seqs) THEN << >> ELSE seqs[i] \o ConcatFrom(seqs, i + 1)

Concat(seqs) == CHOOSE r \in {ConcatFrom(s, 1) : s \in {seqs}} : TRUE

\* (a catch block that pushes the base date for an offset it cannot apply)
OffsetFireTime_pushesBase(baseDate, offset) ==
    LET fireTime == applyISO8601Duration(baseDate, offset)
    IN  IF fireTime = NoDate THEN <<baseDate>> ELSE <<fireTime>>

\* try { fireTimes.push(applyISO8601Duration(baseDate, offset)) } catch (e) { log }
OffsetFireTime(baseDate, offset) ==
    LET fireTime == applyISO8601Duration(baseDate, offset)
    IN  IF fireTime = NoDate THEN << >> ELSE <<fireTime>>

\* for (const offset of offsets) { ... }
OffsetFireTimes(baseDate, offsets) ==
    Concat([i \in 1 .. Len(offsets) |-> OffsetFireTime(baseDate, offsets[i])])

\* (a fallback to the base date whenever no fire time was computed)
calculateFireTimes_baseWhenNoFireTime(originalDate, offsets, defaultTime, repeat) ==
    LET baseDate ==
            IF Len(defaultTime) > 0 /\ ~hasTimeComponent(toISOString(originalDate))
            THEN combineDateAndTime(originalDate, defaultTime)
            ELSE originalDate
    IN  IF Len(OffsetFireTimes(baseDate, offsets)) = 0 THEN <<baseDate>>
        ELSE OffsetFireTimes(baseDate, offsets)

\* (a variant that pushes the base date next to the fire times of the offsets)
calculateFireTimes_baseAlways(originalDate, offsets, defaultTime, repeat) ==
    LET baseDate ==
            IF Len(defaultTime) > 0 /\ ~hasTimeComponent(toISOString(originalDate))
            THEN combineDateAndTime(originalDate, defaultTime)
            ELSE originalDate
    IN  OffsetFireTimes(baseDate, offsets) \o <<baseDate>>

calculateFireTimes(originalDate, offsets, defaultTime, repeat) ==
    LET baseDate ==
            IF Len(defaultTime) > 0 /\ ~hasTimeComponent(toISOString(originalDate))
            THEN combineDateAndTime(originalDate, defaultTime)
            ELSE originalDate
    IN  IF Len(offsets) = 0 THEN <<baseDate>>
        ELSE OffsetFireTimes(baseDate, offsets)

(***************************************************************************)
(* ScheduleGenerator (scheduler.ts).  The store `schedule` is the Map in    *)
(* insertion order: a sequence of occurrences with pairwise distinct ids.   *)
(* Message templates and titles are sequences of text tokens; a             *)
(* placeholder such as "{title}" is one token.                              *)
(***************************************************************************)
\* the replacement string of String.prototype.replace: "$&" in it stands for
\* the matched text
ExpandReplacement(replacement, token) ==
    Concat([i \in 1 .. Len(replacement) |->
        IF replacement[i] = "$&" THEN <<token>> ELSE <<replacement[i]>>])

RECURSIVE ReplaceAll(_, _, _)
ReplaceAll(text, token, replacement) ==
    IF Len(text) = 0 THEN << >>
    ELSE (IF Head(text) = token THEN ExpandReplacement(replacement, token)
          ELSE <<Head(text)>>)
            \o ReplaceAll(Tail(text), token, replacement)

\* template.replace(/{title}/g, ..).replace(/{field}/g, ..)
\*         .replace(/{date}/g, ..).replace(/{path}/g, ..)
resolveMessageTemplate(template, context) ==
    CHOOSE r \in
        {ReplaceAll(withDate, "{path}", <<context.path>>) :
            withDate \in
                {ReplaceAll(withField, "{date}", <<context.date>>) :
                    withField \in
                        {ReplaceAll(withTitle, "{field}", <<context.field>>) :
                            withTitle \in {ReplaceAll(template, "{title}", context.title)}}}} :
        TRUE

\* while (fireTime && fireTime < now) { next = getNextOccurrence(..); .. }
RECURSIVE AdvanceFireTime(_, _, _)
AdvanceFireTime(fireTime, repeat, t) ==
    IF fireTime < t /\ getNextOccurrence(fireTime, repeat, t) # NoDate
    THEN AdvanceFireTime(getNextOccurrence(fireTime, repeat, t), repeat, t)
    ELSE fireTime

\* the body of the loop over fireTimes: the occurrence (without its id) that
\* one candidate fire time yields, or nothing
OccurrenceForFireTime(rule, originalDate, notePath, noteTitle, candidate, t) ==
    LET fireTime == IF rule.repeat # "none"
                    THEN AdvanceFireTime(candidate, rule.repeat, t)
                    ELSE candidate
    IN  IF rule.repeat = "none" /\ fireTime < t THEN << >>
        ELSE << [ruleId |-> rule.id,
                 ruleField |-> rule.field,
                 notePath |-> notePath,
                 noteTitle |-> noteTitle,
                 originalDate |-> originalDate,
                 fireTime |-> fireTime,
                 message |-> resolveMessageTemplate(rule.messageTemplate,
                                [title |-> noteTitle, field |-> rule.field,
                                 date |-> formatDate(originalDate),
                                 path |-> notePath]),
                 channels |-> rule.channels,
                 fired |-> FALSE,
                 createdAt |-> t] >>

DefaultTimeOr0900(rule) ==
    IF Len(rule.defaultTime) > 0 THEN rule.defaultTime ELSE <<"0", "9", ":", "0", "0">>

\* for (let fireTime of fireTimes) { ... }
OccurrencesForFireTimes(rule, originalDate, notePath, noteTitle, fireTimes, t) ==
    Concat([i \in 1 .. Len(fireTimes) |->
        OccurrenceForFireTime(rule, originalDate, notePath, noteTitle, fireTimes[i], t)])

generateOccurrencesForDate(rule, originalDate, notePath, noteTitle, t) ==
    OccurrencesForFireTimes(rule, originalDate, notePath, noteTitle,
        calculateFireTimes(originalDate, rule.offsets, DefaultTimeOr0900(rule), rule.repeat),
        t)

\* for (const extractedDate of note.dates.filter(d => d.field === rule.field))
OccurrencesForNote(rule, note, t) ==
    Concat([i \in 1 .. Len(note.dates) |->
        IF note.dates[i].field = rule.field
        THEN generateOccurrencesForDate(rule, note.dates[i].value, note.path, note.title, t)
        ELSE << >>])

\* for (const note of vaultIndex.notes.values())
OccurrencesForRule(rule, notes, t) ==
    Concat([i \in 1 .. Len(notes) |-> OccurrencesForNote(rule, notes[i], t)])

\* (a loop over the rules that does not look at rule.enabled)
OccurrencesForRules_noEnabledTest(ruleList, notes, t) ==
    Concat([i \in 1 .. Len(ruleList) |-> OccurrencesForRule(ruleList[i], notes, t)])

\* for (const rule of rules) { if (!rule.enabled) continue; ... }
OccurrencesForRules(ruleList, notes, t) ==
    Concat([i \in 1 .. Len(ruleList) |->
        IF ruleList[i].enabled THEN OccurrencesForRule(ruleList[i], notes, t) ELSE << >>])

\* generateId(): a fresh identifier, here (generation number, position)
generateId(g, k) == <<g, k>>

\* (a generateSchedule whose result depends on how often it was called)
generateSchedule_callDependent(ruleList, vaultIndex, t, g) ==
    LET made == OccurrencesForRules(ruleList, vaultIndex, t)
    IN  [k \in 1 .. (IF g > 1 THEN 0 ELSE Len(made)) |->
            [id |-> generateId(g, k)] @@ made[k]]

\* generateSchedule: clear the store, then fill it; g numbers the call
generateSchedule(ruleList, vaultIndex, t, g) ==
    CHOOSE r \in {[k \in 1 .. Len(made) |-> [id |-> generateId(g, k)] @@ made[k]] :
                     made \in {OccurrencesForRules(ruleList, vaultIndex, t)}} : TRUE

\* the fire times calculateFireTimes returns for the dates of a note that a
\* rule matches (the argument of the loop in generateOccurrencesForDate)
CandidatesForNote(rule, note) ==
    Concat([i \in 1 .. Len(note.dates) |->
        IF note.dates[i].field = rule.field
        THEN << [date |-> note.dates[i],
                 fireTimes |-> calculateFireTimes(note.dates[i].value, rule.offsets,
                                                  DefaultTimeOr0900(rule), rule.repeat)] >>
        ELSE << >>])

CandidatesForRule(rule, notes) ==
    IF rule.enabled
    THEN Concat([i \in 1 .. Len(notes) |-> CandidatesForNote(rule, notes[i])])
    ELSE << >>

\* new Date(extractedDate.value) of a value that is no date is an Invalid Date
IsInvalidDate(value) == value = NoDate

\* the (rule, note, date) combinations generateSchedule visits, in order
WorkItemsOfNote(rule, note) ==
    Concat([i \in 1 .. Len(note.dates) |->
        IF note.dates[i].field = rule.field
        THEN << [rule |-> rule, note |-> note, date |-> note.dates[i]] >>
        ELSE << >>])

WorkItemsOfRule(rule, notes) ==
    IF rule.enabled
    THEN Concat([i \in 1 .. Len(notes) |-> WorkItemsOfNote(rule, notes[i])])
    ELSE << >>

WorkItems(ruleList, notes) ==
    Concat([i \in 1 .. Len(ruleList) |-> WorkItemsOfRule(ruleList[i], notes)])

\* the number of combinations visited before originalDate.toISOString() in
\* calculateFireTimes throws a RangeError for an Invalid Date
RECURSIVE VisitedBeforeThrow(_, _)
VisitedBeforeThrow(items, i) ==
    IF i > Len(items) \/ IsInvalidDate(items[i].date.value) THEN i - 1
    ELSE VisitedBeforeThrow(items, i + 1)

OccurrencesOfItems(items, n, t) ==
    Concat([i \in 1 .. n |->
        generateOccurrencesForDate(items[i].rule, items[i].date.value,
                                   items[i].note.path, items[i].note.title, t)])

StoreOfItems(items, n, t, g) ==
    [store |-> [k \in 1 .. Len(OccurrencesOfItems(items, n, t)) |->
                   [id |-> generateId(g, k)] @@ OccurrencesOfItems(items, n, t)[k]],
     threw |-> n < Len(items)]

\* generateSchedule on an index that may hold values that are no dates: the
\* store as the call leaves it, and whether the call threw
generateScheduleOrThrow(ruleList, vaultIndex, t, g) ==
    CHOOSE r \in {StoreOfItems(items, VisitedBeforeThrow(items, 1), t, g) :
                     items \in {WorkItems(ruleList, vaultIndex)}} : TRUE

\* (a test that takes a fire time equal to now for upcoming)
IsUpcoming_includesNow(o, t) == ~o.fired /\ o.fireTime >= t

\* .filter(o => !o.fired && new Date(o.fireTime) > now)
IsUpcoming(o, t) == ~o.fired /\ o.fireTime > t

\* .sort((a, b) => fireTime(a) - fireTime(b)): Array.prototype.sort is stable
RECURSIVE InsertByFireTime(_, _)
InsertByFireTime(sorted, o) ==
    IF Len(sorted) = 0 THEN <<o>>
    ELSE IF Head(sorted).fireTime <= o.fireTime
    THEN <<Head(sorted)>> \o InsertByFireTime(Tail(sorted), o)
    ELSE <<o>> \o sorted

RECURSIVE SortByFireTime(_)
SortByFireTime(list) ==
    IF Len(list) = 0 THEN << >>
    ELSE InsertByFireTime(SortByFireTime(SubSeq(list, 1, Len(list) - 1)), list[Len(list)])

\* .slice(0, limit)
Slice(list, limit) == SubSeq(list, 1, Min(limit, Len(list)))

getUpcomingOccurrences(store, t, limit) ==
    CHOOSE r \in {Slice(sorted, limit) :
                     sorted \in {SortByFireTime(SelectSeq(store, LAMBDA o : IsUpcoming(o, t)))}} : TRUE

\* this.schedule.set(occurrence.id, occurrence) on the Map, as the list of
\* its values in insertion order
MapSet(store, occurrence) ==
    IF \E k \in 1 .. Len(store) : store[k].id = occurrence.id
    THEN [k \in 1 .. Len(store) |->
             IF store[k].id = occurrence.id THEN occurrence ELSE store[k]]
    ELSE Append(store, occurrence)

RECURSIVE SetAll(_, _, _)
SetAll(store, occurrences, i) ==
    IF i > Len(occurrences) THEN store
    ELSE SetAll(MapSet(store, occurrences[i]), occurrences, i + 1)

\* (an import that takes every occurrence as not yet fired)
importSchedule_resetsFired(occurrences) ==
    SetAll(<< >>, [k \in 1 .. Len(occurrences) |-> [occurrences[k] EXCEPT !.fired = FALSE]], 1)

\* importSchedule: this.schedule.clear(); then set each occurrence by its id
importSchedule(occurrences) == SetAll(<< >>, occurrences, 1)

\* exportSchedule: Array.from(this.schedule.values())
exportSchedule(store) == store

\* (a filter that forgets the time test)
IsDue_noTimeTest(o, t) == ~o.fired

\* .filter(o => !o.fired && new Date(o.fireTime) <= now)
IsDue(o, t) == ~o.fired /\ o.fireTime <= t

getDueOccurrences(store, t) == SelectSeq(store, LAMBDA o : IsDue(o, t))

\* (a markAsFired that leaves the store as it is)
markAsFired_noop(store, id) == store

\* (a markAsFired that inverts the flag)
markAsFired_flips(store, id) ==
    [k \in 1 .. Len(store) |->
        IF store[k].id = id THEN [store[k] EXCEPT !.fired = ~store[k].fired] ELSE store[k]]

\* const occurrence = this.schedule.get(id); if (occurrence) occurrence.fired = true
markAsFired(store, id) ==
    [k \in 1 .. Len(store) |->
        IF store[k].id = id THEN [store[k] EXCEPT !.fired = TRUE] ELSE store[k]]

(***************************************************************************)
(* NotificationDispatcher (dispatcher.ts)                                   *)
(***************************************************************************)
checkIntervalMs == 30000
MsPerSec == 1000

RECURSIVE MarkAllFired(_, _, _)
MarkAllFired(store, dueOccurrences, i) ==
    IF i > Len(dueOccurrences) THEN store
    ELSE MarkAllFired(markAsFired(store, dueOccurrences[i].id), dueOccurrences, i + 1)

\* checkAndFireNotifications: the occurrences handed to fireNotification, in
\* order, and the store after markAsFired was called for each of them
checkAndFireNotifications(store, t) ==
    LET dueOccurrences == getDueOccurrences(store, t)
    IN  [fired |-> dueOccurrences,
         store |-> MarkAllFired(store, dueOccurrences, 1)]

\* the platform's answer to 'Notification' in window and Notification.permission
Permissions == {"unsupported", "granted", "denied", "default"}

NotificationChannel == {"obsidian", "system"}

\* fireObsidianNotification: new Notice(message, timeout) and the DOM calls on
\* it; `faults` holds the channels whose platform call throws
fireObsidianNotification(faults) ==
    IF "obsidian" \in faults THEN "raised" ELSE "shown"

\* (a fireSystemNotification that throws when the capability is unavailable)
fireSystemNotification_throwsIfUnavailable(permission, faults) ==
    IF permission = "granted"
    THEN (IF "system" \in faults THEN "raised" ELSE "shown")
    ELSE "raised"

\* fireSystemNotification: returns when notifications are unsupported, shows
\* the notification (showSystemNotification: new Notification(..)) when
\* permission is granted, asks for permission when it is neither granted nor
\* denied (the notification is then shown, if at all, by the promise callback)
fireSystemNotification(permission, faults) ==
    IF permission = "unsupported" THEN "skipped"
    ELSE IF permission = "granted"
    THEN (IF "system" \in faults THEN "raised" ELSE "shown")
    ELSE IF permission # "denied" THEN "requested"
    ELSE "skipped"

\* switch (channel) { case 'obsidian': ..; case 'system': .. }
ChannelOutcome(channel, permission, faults) ==
    IF channel = "obsidian" THEN fireObsidianNotification(faults)
    ELSE IF channel = "system" THEN fireSystemNotification(permission, faults)
    ELSE "ignored"

\* for (const channel of occurrence.channels) { .. }: the channels attempted,
\* in order, up to and including one that throws
RECURSIVE FireChannels(_, _, _, _)
FireChannels(occurrence, i, permission, faults) ==
    IF i > Len(occurrence.channels) THEN << >>
    ELSE <<[id |-> occurrence.id, channel |-> occurrence.channels[i],
            outcome |-> ChannelOutcome(occurrence.channels[i], permission, faults)]>>
         \o (IF ChannelOutcome(occurrence.channels[i], permission, faults) = "raised"
             THEN << >>
             ELSE FireChannels(occurrence, i + 1, permission, faults))

fireNotification(occurrence, permission, faults) ==
    FireChannels(occurrence, 1, permission, faults)

Raised(log) == Len(log) > 0 /\ log[Len(log)].outcome = "raised"

\* for (const occurrence of dueOccurrences) { fireNotification(occurrence);
\* markAsFired(occurrence.id) }: an exception leaves the loop and the function
RECURSIVE FireAndMark(_, _, _, _, _, _)
FireAndMark(store, dueOccurrences, i, permission, faults, log) ==
    IF i > Len(dueOccurrences) THEN [store |-> store, attempts |-> log, raised |-> FALSE]
    ELSE IF Raised(fireNotification(dueOccurrences[i], permission, faults))
    THEN [store |-> store,
          attempts |-> log \o fireNotification(dueOccurrences[i], permission, faults),
          raised |-> TRUE]
    ELSE FireAndMark(markAsFired(store, dueOccurrences[i].id), dueOccurrences, i + 1,
                     permission, faults,
                     log \o fireNotification(dueOccurrences[i], permission, faults))

\* checkAndFireNotifications on a platform with the given permission and faults
checkAndFireNotificationsOn(store, t, permission, faults) ==
    CHOOSE r \in {FireAndMark(store, due, 1, permission, faults, << >>) :
                     due \in {getDueOccurrences(store, t)}} : TRUE

(***************************************************************************)
(* Bounds and the inputs of the model                                       *)
(***************************************************************************)
MaxGen == 2         \* number of generateSchedule calls explored
MaxHandles == 2     \* number of setInterval handles handed out
TimeStep == 10      \* seconds by which the clock advances in one step
MaxSteps == 5       \* number of clock steps explored

MaxRetries == 2     \* number of due-checks that attempt one occurrence
MaxEvents == 3      \* number of document-change events explored
QuantumMs == 500    \* milliseconds by which the millisecond clock advances
MaxQuanta == 9      \* number of such advances explored

T0 == FromCivil(2025, 3, 10, 9, 0, 0)
MaxNow == T0 + MaxSteps * TimeStep

P1D_neg == <<"-", "P", "1", "D">>
PT10S_neg == <<"-", "P", "T", "1", "0", "S">>
BadOffset == <<"b", "a", "d">>

RuleDueNone ==
    [id |-> "r1", field |-> "due", defaultTime |-> << >>, offsets |-> << >>,
     repeat |-> "none", messageTemplate |-> <<"Task due: ", "{title}">>,
     channels |-> <<"obsidian">>, enabled |-> TRUE]

RuleDueNoneEarly ==
    [RuleDueNone EXCEPT !.id = "r2", !.offsets = <<PT10S_neg, BadOffset>>,
                        !.channels = <<"obsidian", "system">>]

RuleDueDaily ==
    [RuleDueNone EXCEPT !.id = "r3", !.repeat = "daily",
                        !.messageTemplate = <<"{title}", " on ", "{date}">>]

RuleDueDailyBefore ==
    [RuleDueDaily EXCEPT !.id = "r4", !.offsets = <<P1D_neg>>]

RuleMeetMonthly ==
    [RuleDueNone EXCEPT !.id = "r5", !.field = "meet", !.repeat = "monthly",
                        !.defaultTime = <<"0", "8", ":", "3", "0">>]

RuleDisabled == [RuleDueNone EXCEPT !.id = "r6", !.enabled = FALSE]

RuleLists ==
    { <<RuleDueNone>>,
      <<RuleDueDaily>>,
      <<RuleDueNoneEarly, RuleDisabled>>,
      <<RuleDueDailyBefore, RuleMeetMonthly>> }

NoteA == [path |-> "a.md", title |-> <<"Report">>,
          dates |-> << [field |-> "due", value |-> T0 + 2 * TimeStep] >>]
NoteB == [path |-> "b.md", title |-> <<"Plan">>,
          dates |-> << [field |-> "due", value |-> T0 + 4 * TimeStep],
                       [field |-> "meet", value |-> T0 - 3 * TimeStep] >>]

IndexChoices == { <<NoteA>>, <<NoteA, NoteB>> }

(***************************************************************************)
(* State                                                                    *)
(***************************************************************************)
VARIABLES
    now,            \* the wall clock, new Date()
    rules,          \* settings.rules
    index,          \* the notes of the vault index, in Map order
    schedule,       \* ScheduleGenerator.schedule
    gen,            \* number of generateSchedule calls so far
    checkInterval,  \* NotificationDispatcher.checkInterval (0: null)
    isPaused,       \* NotificationDispatcher.isPaused
    timers,         \* live window.setInterval timers: [handle, due]
    nextHandle,     \* next handle window.setInterval returns
    lastOp,         \* history: the operation performed last
    checked,        \* history: lastOp ran checkAndFireNotifications
    batch,          \* history: the occurrences it handed to fireNotification
    deliveries,     \* history: due-check deliveries per id of the store
    pausedAt,       \* history: when isPaused last turned true
    stopped,        \* history: stop() has been called
    calcArgs,       \* arguments of a call of a function of the date utilities or the generator
    calcResult,     \* its result
    generated,      \* history: what the last generateSchedule call returned
    generatedAt,    \* history: the time of that call
    repeatedCall,   \* history: lastOp is a generateSchedule call at the time of the call before
    replacedFired,  \* history: lastOp is a generateSchedule call that replaced a fired occurrence
    candidates,     \* history: per rule, the fire times calculateFireTimes returned
    permission,     \* the platform: Notification support and permission
    faults,         \* the platform: channels whose delivery call throws
    attempts,       \* history: channel deliveries attempted by the last due-check
    raised,         \* history: the last due-check ended by an exception
    clockMs,        \* milliseconds since the layout became ready
    isInitializing, \* plugin.isInitializing
    rebuildDebounceTimer,   \* plugin.rebuildDebounceTimer (0: null)
    timeouts,       \* pending setTimeout timers of the debounce: [handle, due]
    nextTimeout,    \* next handle setTimeout returns
    indexing,       \* event handlers waiting in await indexer.updateFileIndex(file)
    events,         \* history: document-change events handled after initialisation
    lastEventAt,    \* history: clockMs of the last of them
    burst,          \* history: each of them came less than 1 s after the one before
    rebuilds,       \* history: rebuilds the debounce timer has started
    upcoming,       \* the upcoming modal: [limit, shows, list], or << >> when never opened
    manual,         \* history: channel deliveries of the last Fire Now
    firedNow,       \* history: ids of the occurrences fired with Fire Now
    aborted,        \* history: the last generateSchedule call ended by an exception
    phase,          \* life of the plugin: "constructed", "loaded", "ready", "unloaded"
    privacyMode,    \* settings.privacyMode
    disk,           \* the persisted blob (data.json): [rules, privacyMode, schedule]
    loadedSchedule, \* settings.schedule: the schedule key loadSettings copied from the blob
    editor,         \* the open RuleEditorModal: [id, isNew, rule], or << >> when closed
    passedRules,    \* history: the rule list passed to the last generateSchedule call
    edits,          \* history: the number of changes made in rule editors
    notificationsPaused,    \* settings.notificationsPaused
    tasks,          \* file operations in flight, in the order issued: [op, pc, data]
    vault,          \* the markdown files of the vault: the notes they would be indexed as
    excludedFolders,        \* settings.excludedFolders
    indexingInProgress,     \* VaultIndexer.indexingInProgress
    passes,         \* the indexVault passes under way: [files, next, caller]
    passLog         \* history: [started, early, failed] indexVault calls so far

progVars == <<rules, index, schedule, gen, checkInterval, isPaused, timers, nextHandle>>
histVars == <<lastOp, checked, batch, deliveries, pausedAt, stopped>>
calcVars == <<calcArgs, calcResult>>
genVars == <<generated, generatedAt, repeatedCall, replacedFired, candidates>>
delivVars == <<permission, faults, attempts, raised>>
debVars == <<clockMs, isInitializing, rebuildDebounceTimer, timeouts, nextTimeout,
             indexing, events, lastEventAt, burst, rebuilds>>
modalVars == <<upcoming, manual, firedNow>>
pluginVars == <<phase, privacyMode, disk, loadedSchedule, editor, passedRules, edits>>
indexerVars == <<vault, excludedFolders, indexingInProgress, passes, passLog>>
lateVars == <<tasks, indexerVars>>
extraVars == <<modalVars, aborted, pluginVars, notificationsPaused, lateVars>>
otherVars == <<calcVars, delivVars, debVars, extraVars>>
vars == <<now, progVars, histVars, genVars, otherVars>>

Ids(store) == {store[k].id : k \in 1 .. Len(store)}

NotCalled == NoDate - 1
NoArgs == [date |-> 0, repeat |-> "none", fromDate |-> 0]

CalcIdle ==
    /\ calcArgs = NoArgs
    /\ calcResult = NotCalled

DeliverIdle ==
    /\ permission = "granted"
    /\ faults = {}
    /\ attempts = << >>
    /\ raised = FALSE

DebounceIdle ==
    /\ clockMs = 0
    /\ isInitializing = FALSE
    /\ rebuildDebounceTimer = 0
    /\ timeouts = {}
    /\ nextTimeout = 1
    /\ indexing = 0
    /\ events = 0
    /\ lastEventAt = NoDate
    /\ burst = TRUE
    /\ rebuilds = 0

ModalIdle ==
    /\ upcoming = << >>
    /\ manual = << >>
    /\ firedNow = {}

PluginIdle ==
    /\ phase = "ready"
    /\ privacyMode = FALSE
    /\ disk = << >>
    /\ loadedSchedule = << >>
    /\ editor = << >>
    /\ passedRules = << >>
    /\ edits = 0

IndexerIdle ==
    /\ vault = << >>
    /\ excludedFolders = {}
    /\ indexingInProgress = FALSE
    /\ passes = << >>
    /\ passLog = [started |-> 0, early |-> 0, failed |-> 0]

LateIdle ==
    /\ tasks = << >>
    /\ IndexerIdle

ExtraIdle ==
    /\ ModalIdle
    /\ aborted = FALSE
    /\ PluginIdle
    /\ notificationsPaused = FALSE
    /\ LateIdle

GenIdle ==
    /\ generated = << >>
    /\ generatedAt = NoDate
    /\ repeatedCall = FALSE
    /\ replacedFired = FALSE
    /\ candidates = << >>

\* an operation other than generateSchedule, as the generation history sees it
NoGenerate ==
    /\ repeatedCall' = FALSE
    /\ replacedFired' = FALSE
    /\ UNCHANGED <<generated, generatedAt, candidates>>

Init ==
    /\ now = T0
    /\ rules \in RuleLists
    /\ index \in IndexChoices
    /\ schedule = << >>
    /\ gen = 0
    /\ checkInterval = 0
    /\ isPaused = FALSE
    /\ timers = {}
    /\ nextHandle = 1
    /\ lastOp = "init"
    /\ checked = FALSE
    /\ batch = << >>
    /\ deliveries = << >>
    /\ pausedAt = NoDate
    /\ stopped = FALSE
    /\ CalcIdle
    /\ GenIdle
    /\ ExtraIdle
    /\ DeliverIdle
    /\ DebounceIdle

\* the effect of one checkAndFireNotifications call on the store and the history
DueCheck ==
    LET r == checkAndFireNotifications(schedule, now)
    IN  /\ schedule' = r.store
        /\ checked' = TRUE
        /\ batch' = r.fired
        /\ deliveries' =
              [k \in 1 .. Len(schedule) |->
                  deliveries[k]
                    + Cardinality({i \in 1 .. Len(r.fired) : r.fired[i].id = schedule[k].id})]

\* pausedAt is kept while paused and in the state a resume() leads to
KeepPauseMark == pausedAt' = IF isPaused THEN pausedAt ELSE NoDate

NoDueCheck ==
    /\ checked' = FALSE
    /\ batch' = << >>
    /\ UNCHANGED <<schedule, deliveries>>

\* (a start() without the "already running" guard)
start_noGuard ==
    /\ nextHandle <= MaxHandles
    /\ lastOp' = "start"
    /\ checkInterval' = nextHandle
    /\ nextHandle' = nextHandle + 1
    /\ timers' = timers \cup
          {[handle |-> nextHandle, due |-> now + checkIntervalMs \div MsPerSec]}
    /\ DueCheck
    /\ KeepPauseMark
    /\ NoGenerate
    /\ UNCHANGED <<now, rules, index, gen, isPaused, stopped, otherVars>>

start ==
    /\ ~(checkInterval = 0 /\ nextHandle > MaxHandles)
    /\ lastOp' = "start"
    /\ IF checkInterval # 0
       THEN /\ NoDueCheck
            /\ UNCHANGED <<checkInterval, timers, nextHandle>>
       ELSE /\ checkInterval' = nextHandle
            /\ nextHandle' = nextHandle + 1
            /\ timers' = timers \cup
                  {[handle |-> nextHandle, due |-> now + checkIntervalMs \div MsPerSec]}
            /\ DueCheck
    /\ KeepPauseMark
    /\ NoGenerate
    /\ UNCHANGED <<now, rules, index, gen, isPaused, stopped, otherVars>>

\* (a stop() that forgets clearInterval)
stop_keepsTimer ==
    /\ lastOp' = "stop"
    /\ stopped' = TRUE
    /\ checkInterval' = 0
    /\ NoDueCheck
    /\ KeepPauseMark
    /\ NoGenerate
    /\ UNCHANGED <<now, rules, index, gen, isPaused, timers, nextHandle, otherVars>>

stop ==
    /\ lastOp' = "stop"
    /\ stopped' = TRUE
    /\ IF checkInterval # 0
       THEN /\ timers' = {tm \in timers : tm.handle # checkInterval}
            /\ checkInterval' = 0
       ELSE UNCHANGED <<timers, checkInterval>>
    /\ NoDueCheck
    /\ KeepPauseMark
    /\ NoGenerate
    /\ UNCHANGED <<now, rules, index, gen, isPaused, nextHandle, otherVars>>

pause ==
    /\ NoGenerate
    /\ lastOp' = "pause"
    /\ isPaused' = TRUE
    /\ pausedAt' = IF isPaused THEN pausedAt ELSE now
    /\ NoDueCheck
    /\ UNCHANGED <<now, rules, index, gen, checkInterval, timers, nextHandle,
                   stopped, otherVars>>

\* (a resume() without the immediate due-check)
resume_noCheck ==
    /\ NoGenerate
    /\ lastOp' = "resume"
    /\ isPaused' = FALSE
    /\ NoDueCheck
    /\ UNCHANGED <<now, rules, index, gen, checkInterval, timers, nextHandle,
                   pausedAt, stopped, otherVars>>

resume ==
    /\ NoGenerate
    /\ lastOp' = "resume"
    /\ isPaused' = FALSE
    /\ DueCheck
    /\ UNCHANGED <<now, rules, index, gen, checkInterval, timers, nextHandle,
                   pausedAt, stopped, otherVars>>

\* (an interval callback that does not look at isPaused)
TimerTick_ignoresPause ==
    \E tm \in timers :
        /\ now >= tm.due
        /\ lastOp' = "tick"
        /\ timers' = (timers \ {tm}) \cup
              {[tm EXCEPT !.due = now + checkIntervalMs \div MsPerSec]}
        /\ DueCheck
        /\ KeepPauseMark
        /\ NoGenerate
        /\ UNCHANGED <<now, rules, index, gen, checkInterval, isPaused, nextHandle,
                       stopped, otherVars>>

\* the setInterval callback: if (!this.isPaused) this.checkAndFireNotifications()
TimerTick ==
    \E tm \in timers :
        /\ now >= tm.due
        /\ lastOp' = "tick"
        /\ timers' = (timers \ {tm}) \cup
              {[tm EXCEPT !.due = now + checkIntervalMs \div MsPerSec]}
        /\ IF ~isPaused THEN DueCheck ELSE NoDueCheck
        /\ KeepPauseMark
        /\ NoGenerate
        /\ UNCHANGED <<now, rules, index, gen, checkInterval, isPaused, nextHandle,
                       stopped, otherVars>>

\* the history a generateSchedule call leaves
GenerateHistory ==
    /\ generated' = schedule'
    /\ generatedAt' = now
    /\ repeatedCall' = (gen >= 1 /\ generatedAt = now)
    /\ replacedFired' = (\E k \in 1 .. Len(schedule) : schedule[k].fired)
    /\ candidates' = [r \in 1 .. Len(rules) |-> CandidatesForRule(rules[r], index)]
    /\ deliveries' = [k \in 1 .. Len(schedule') |-> 0]
    /\ checked' = FALSE
    /\ batch' = << >>
    /\ KeepPauseMark

\* (a generateSchedule that does not clear the store first)
GenerateSchedule_noClear ==
    /\ gen < MaxGen
    /\ lastOp' = "generate"
    /\ gen' = gen + 1
    /\ schedule' = schedule \o generateSchedule(rules, index, now, gen + 1)
    /\ GenerateHistory
    /\ UNCHANGED <<now, rules, index, checkInterval, isPaused, timers, nextHandle,
                   stopped, otherVars>>

\* a call of ScheduleGenerator.generateSchedule(settings.rules, index)
GenerateSchedule ==
    /\ gen < MaxGen
    /\ lastOp' = "generate"
    /\ gen' = gen + 1
    /\ schedule' = generateSchedule(rules, index, now, gen + 1)
    /\ GenerateHistory
    /\ UNCHANGED <<now, rules, index, checkInterval, isPaused, timers, nextHandle,
                   stopped, otherVars>>

AdvanceTime ==
    /\ now < MaxNow
    /\ now' = now + TimeStep
    /\ lastOp' = "advance"
    /\ NoDueCheck
    /\ KeepPauseMark
    /\ NoGenerate
    /\ UNCHANGED <<progVars, stopped, otherVars>>

Next ==
    \/ start
    \/ stop
    \/ pause
    \/ resume
    \/ TimerTick
    \/ GenerateSchedule
    \/ AdvanceTime

Spec == Init /\ [][Next]_vars

(***************************************************************************)
(* getNextOccurrence as a function of its arguments                         *)
(***************************************************************************)
CalcDates ==
    { FromCivil(2025, 1, 31, 9, 0, 0), FromCivil(2025, 2, 20, 9, 0, 0),
      FromCivil(2025, 3, 1, 0, 0, 0),  FromCivil(2025, 3, 10, 9, 0, 0),
      FromCivil(2025, 3, 10, 9, 0, 1) }

CalcFromDates ==
    { FromCivil(2025, 1, 15, 0, 0, 0), FromCivil(2025, 2, 20, 9, 0, 0),
      FromCivil(2025, 3, 1, 0, 0, 0),  FromCivil(2025, 3, 10, 9, 0, 0) }

InitCalc ==
    /\ now = T0
    /\ rules = << >>
    /\ index = << >>
    /\ schedule = << >>
    /\ gen = 0
    /\ checkInterval = 0
    /\ isPaused = FALSE
    /\ timers = {}
    /\ nextHandle = 1
    /\ lastOp = "init"
    /\ checked = FALSE
    /\ batch = << >>
    /\ deliveries = << >>
    /\ pausedAt = NoDate
    /\ stopped = FALSE
    /\ GenIdle
    /\ ExtraIdle
    /\ DeliverIdle
    /\ DebounceIdle
    /\ calcArgs \in [date : CalcDates, repeat : RepeatPattern, fromDate : CalcFromDates]
    /\ calcResult = NotCalled

CallGetNextOccurrence ==
    /\ calcResult = NotCalled
    /\ calcResult' = getNextOccurrence(calcArgs.date, calcArgs.repeat, calcArgs.fromDate)
    /\ lastOp' = "getNextOccurrence"
    /\ UNCHANGED <<now, progVars, checked, batch, deliveries, pausedAt, stopped, calcArgs,
                   genVars, delivVars, debVars, extraVars>>

NextCalc == CallGetNextOccurrence

SpecCalc == InitCalc /\ [][NextCalc]_vars

(***************************************************************************)
(* generateSchedule as a function of a rule, an extracted date and the      *)
(* time of the call.  The indexer stores parseDate(rawValue).toISOString()  *)
(* next to the raw text of the date.                                        *)
(***************************************************************************)
\* parseDate: moment(dateStr, moment.ISO_8601, true).toDate(); a date without
\* a time of day is local midnight
parseDate(raw) == FromCivil(raw.year, raw.month, raw.day, raw.hour, raw.minute, 0)

RawDate(y, m, d) ==
    [year |-> y, month |-> m, day |-> d, hour |-> 0, minute |-> 0, hasTime |-> FALSE]

RawDateTime(y, m, d, h, mi) ==
    [year |-> y, month |-> m, day |-> d, hour |-> h, minute |-> mi, hasTime |-> TRUE]

RawDates ==
    { RawDate(1985, 2, 20), RawDate(2025, 2, 20), RawDateTime(2025, 2, 20, 14, 0),
      RawDate(2025, 3, 10), RawDateTime(2026, 1, 31, 10, 30) }

GenNows ==
    { FromCivil(2025, 2, 1, 0, 0, 0), FromCivil(2025, 2, 19, 9, 0, 0),
      FromCivil(2025, 3, 10, 0, 0, 0) }

PT1H == <<"P", "T", "1", "H">>
NoP == <<"1", "D">>

HHMM0900 == <<"0", "9", ":", "0", "0">>

\* the birthday rule of the settings tab's examples
GenBirthday ==
    [id |-> "g1", field |-> "birthday", defaultTime |-> HHMM0900,
     offsets |-> <<P1D_neg>>, repeat |-> "yearly",
     messageTemplate |-> <<"{title}", " has birthday">>,
     channels |-> <<"obsidian", "system">>, enabled |-> TRUE, ignoreYear |-> TRUE]

GenMixedNone ==
    [GenBirthday EXCEPT !.id = "g2", !.defaultTime = << >>,
                        !.offsets = <<P1D_neg, BadOffset>>, !.repeat = "none",
                        !.ignoreYear = FALSE]

GenAllInvalid ==
    [GenBirthday EXCEPT !.id = "g3", !.defaultTime = << >>,
                        !.offsets = <<BadOffset, NoP>>, !.repeat = "yearly",
                        !.ignoreYear = FALSE]

GenIgnoreYearNone ==
    [GenBirthday EXCEPT !.id = "g4", !.defaultTime = <<"0", "8", ":", "3", "0">>,
                        !.offsets = << >>, !.repeat = "none"]

GenMixedYearly ==
    [GenBirthday EXCEPT !.id = "g5", !.defaultTime = << >>,
                        !.offsets = <<PT1H, BadOffset, PT10S_neg, NoP, P1D_neg>>,
                        !.repeat = "yearly", !.ignoreYear = FALSE]

GenPlainYearly ==
    [GenBirthday EXCEPT !.id = "g6", !.defaultTime = << >>, !.offsets = << >>,
                        !.ignoreYear = FALSE]

GenAllInvalidNone == [GenAllInvalid EXCEPT !.id = "g7", !.repeat = "none"]

GenRules ==
    { GenBirthday, GenMixedNone, GenAllInvalid, GenIgnoreYearNone, GenMixedYearly,
      GenPlainYearly, GenAllInvalidNone }

\* a rule on another field, processed after the rule under study
RuleAfter ==
    [GenBirthday EXCEPT !.id = "g9", !.field = "review", !.defaultTime = << >>,
                        !.offsets = << >>, !.repeat = "none", !.ignoreYear = FALSE]

ReviewDate == FromCivil(2030, 1, 1, 10, 0, 0)

GenNote(raw) ==
    [path |-> "n.md", title |-> <<"Ann">>,
     dates |-> << [field |-> "birthday", value |-> parseDate(raw), rawValue |-> raw],
                  [field |-> "review", value |-> ReviewDate,
                   rawValue |-> RawDateTime(2030, 1, 1, 10, 0)] >>]

InitGen ==
    /\ now \in GenNows
    /\ rules \in {<<g, RuleAfter>> : g \in GenRules}
    /\ index \in {<<GenNote(raw)>> : raw \in RawDates}
    /\ schedule = << >>
    /\ gen = 0
    /\ checkInterval = 0
    /\ isPaused = FALSE
    /\ timers = {}
    /\ nextHandle = 1
    /\ lastOp = "init"
    /\ checked = FALSE
    /\ batch = << >>
    /\ deliveries = << >>
    /\ pausedAt = NoDate
    /\ stopped = FALSE
    /\ CalcIdle
    /\ GenIdle
    /\ ExtraIdle
    /\ DeliverIdle
    /\ DebounceIdle

NextGen == GenerateSchedule

SpecGen == InitGen /\ [][NextGen]_vars

(***************************************************************************)
(* The due-check on a platform whose notification capability may be         *)
(* unavailable and whose delivery calls may throw.                          *)
(***************************************************************************)
RuleSystemFirst ==
    [RuleDueNone EXCEPT !.id = "r7", !.channels = <<"system", "obsidian">>]

RuleSystemOnly == [RuleDueNone EXCEPT !.id = "r8", !.channels = <<"system">>]

DeliverRuleLists ==
    { <<RuleSystemFirst>>, <<RuleDueNoneEarly>>, <<RuleSystemOnly, RuleDueNone>> }

InitDeliver ==
    /\ now = T0
    /\ rules \in DeliverRuleLists
    /\ index = <<NoteA, NoteB>>
    /\ schedule = << >>
    /\ gen = 0
    /\ checkInterval = 0
    /\ isPaused = FALSE
    /\ timers = {}
    /\ nextHandle = 1
    /\ lastOp = "init"
    /\ checked = FALSE
    /\ batch = << >>
    /\ deliveries = << >>
    /\ pausedAt = NoDate
    /\ stopped = FALSE
    /\ CalcIdle
    /\ GenIdle
    /\ ExtraIdle
    /\ DebounceIdle
    /\ permission \in Permissions
    /\ faults \in SUBSET NotificationChannel
    /\ attempts = << >>
    /\ raised = FALSE

AttemptedIds(log) == {log[i].id : i \in 1 .. Len(log)}

\* a due-check (checkAndFireNotifications) on the platform
DeliverTick ==
    LET r == checkAndFireNotificationsOn(schedule, now, permission, faults)
    IN  /\ \A k \in 1 .. Len(schedule) : deliveries[k] < MaxRetries
        /\ lastOp' = "deliver"
        /\ schedule' = r.store
        /\ attempts' = r.attempts
        /\ raised' = r.raised
        /\ checked' = TRUE
        /\ batch' = SelectSeq(schedule, LAMBDA o : o.id \in AttemptedIds(r.attempts))
        /\ deliveries' =
              [k \in 1 .. Len(schedule) |->
                  deliveries[k]
                    + (IF schedule[k].id \in AttemptedIds(r.attempts) THEN 1 ELSE 0)]
        /\ KeepPauseMark
        /\ NoGenerate
        /\ UNCHANGED <<now, rules, index, gen, checkInterval, isPaused, timers, nextHandle,
                       stopped, calcVars, extraVars, debVars, permission, faults>>

\* the user answers the permission prompt
AnswerPermissionPrompt ==
    /\ permission = "default"
    /\ permission' \in {"granted", "denied"}
    /\ lastOp' = "permission"
    /\ NoDueCheck
    /\ KeepPauseMark
    /\ NoGenerate
    /\ UNCHANGED <<now, progVars, stopped, calcVars, extraVars, debVars, faults, attempts, raised>>

NextDeliver ==
    \/ GenerateSchedule
    \/ AdvanceTime
    \/ DeliverTick
    \/ AnswerPermissionPrompt

SpecDeliver == InitDeliver /\ [][NextDeliver]_vars

(***************************************************************************)
(* The document-change handlers of the plugin (main.ts) and the debounced   *)
(* rebuild.  The handled files are a.md (modified) and b.md (deleted).      *)
(***************************************************************************)
DebounceMs == 1000
InitDelayMs == 2000

MaxClockMs == MaxQuanta * QuantumMs

InitDebounce ==
    /\ now = T0
    /\ rules \in {<<RuleDueNone>>, <<RuleDueDaily>>}
    /\ index = <<NoteA, NoteB>>
    /\ schedule = << >>
    /\ gen = 0
    /\ checkInterval = 0
    /\ isPaused = FALSE
    /\ timers = {}
    /\ nextHandle = 1
    /\ lastOp = "init"
    /\ checked = FALSE
    /\ batch = << >>
    /\ deliveries = << >>
    /\ pausedAt = NoDate
    /\ stopped = FALSE
    /\ CalcIdle
    /\ GenIdle
    /\ ExtraIdle
    /\ DeliverIdle
    /\ clockMs = 0
    /\ isInitializing = TRUE
    /\ rebuildDebounceTimer = 0
    /\ timeouts = {}
    /\ nextTimeout = 1
    /\ indexing = 0
    /\ events = 0
    /\ lastEventAt = NoDate
    /\ burst = TRUE
    /\ rebuilds = 0

\* what the dispatcher's history sees of a step of the plugin
PluginStep(op) ==
    /\ lastOp' = op
    /\ NoDueCheck
    /\ KeepPauseMark
    /\ NoGenerate
    /\ UNCHANGED <<now, rules, gen, checkInterval, isPaused, timers, nextHandle,
                   stopped, calcVars, extraVars, delivVars>>

\* debouncedRebuildSchedule: clearTimeout(rebuildDebounceTimer), then setTimeout
debouncedRebuildSchedule ==
    /\ timeouts' = {tm \in timeouts : tm.handle # rebuildDebounceTimer}
                      \cup {[handle |-> nextTimeout, due |-> clockMs + DebounceMs]}
    /\ rebuildDebounceTimer' = nextTimeout
    /\ nextTimeout' = nextTimeout + 1

\* the history of a document-change event that passed the isInitializing test
EventHandled ==
    /\ events' = events + 1
    /\ lastEventAt' = clockMs
    /\ burst' = (burst /\ (lastEventAt = NoDate \/ clockMs - lastEventAt < DebounceMs))

\* setTimeout(() => { this.isInitializing = false }, 2000)
FinishInitializing ==
    /\ isInitializing
    /\ clockMs >= InitDelayMs
    /\ isInitializing' = FALSE
    /\ PluginStep("initialized")
    /\ UNCHANGED <<index, clockMs, rebuildDebounceTimer, timeouts, nextTimeout, indexing,
                   events, lastEventAt, burst, rebuilds>>

\* vault.on('modify') for a.md: the handler runs up to
\* await this.indexer.updateFileIndex(file), which reads the file
ModifyEvent ==
    /\ events + indexing < MaxEvents
    /\ PluginStep("modify")
    /\ IF isInitializing
       THEN UNCHANGED <<indexing, events, lastEventAt, burst>>
       ELSE /\ indexing' = indexing + 1
            /\ EventHandled
    /\ UNCHANGED <<index, clockMs, isInitializing, rebuildDebounceTimer, timeouts,
                   nextTimeout, rebuilds>>

\* the handler continues after the await: the note is stored in the index
\* again and debouncedRebuildSchedule() is called
IndexingDone ==
    /\ indexing > 0
    /\ indexing' = indexing - 1
    /\ debouncedRebuildSchedule
    /\ PluginStep("indexed")
    /\ UNCHANGED <<index, clockMs, isInitializing, events, lastEventAt, burst, rebuilds>>

\* vault.on('delete') for b.md: removeFileFromIndex and
\* debouncedRebuildSchedule(), without an await
DeleteEvent ==
    /\ events + indexing < MaxEvents
    /\ \E n \in 1 .. Len(index) : index[n].path = "b.md"
    /\ PluginStep("delete")
    /\ IF isInitializing
       THEN UNCHANGED <<index, rebuildDebounceTimer, timeouts, nextTimeout,
                        events, lastEventAt, burst>>
       ELSE /\ index' = SelectSeq(index, LAMBDA n : n.path # "b.md")
            /\ debouncedRebuildSchedule
            /\ EventHandled
    /\ UNCHANGED <<clockMs, isInitializing, indexing, rebuilds>>

\* the debounce timer fires: rebuildSchedule(), which calls generateSchedule
DebounceFire ==
    \E tm \in timeouts :
        /\ clockMs >= tm.due
        /\ timeouts' = timeouts \ {tm}
        /\ lastOp' = "rebuild"
        /\ IF isInitializing
           THEN /\ NoDueCheck
                /\ KeepPauseMark
                /\ NoGenerate
                /\ UNCHANGED <<gen, rebuilds>>
           ELSE /\ gen' = gen + 1
                /\ schedule' = generateSchedule(rules, index, now, gen + 1)
                /\ GenerateHistory
                /\ rebuilds' = rebuilds + 1
        /\ UNCHANGED <<now, rules, index, checkInterval, isPaused, timers, nextHandle,
                       stopped, calcVars, extraVars, delivVars, clockMs, isInitializing,
                       rebuildDebounceTimer, nextTimeout, indexing, events, lastEventAt,
                       burst>>

AdvanceClock ==
    /\ clockMs < MaxClockMs
    /\ clockMs' = clockMs + QuantumMs
    /\ now' = T0 + (clockMs + QuantumMs) \div MsPerSec
    /\ lastOp' = "clock"
    /\ NoDueCheck
    /\ KeepPauseMark
    /\ NoGenerate
    /\ UNCHANGED <<progVars, stopped, calcVars, extraVars, delivVars, isInitializing,
                   rebuildDebounceTimer, timeouts, nextTimeout, indexing, events,
                   lastEventAt, burst, rebuilds>>

NextDebounce ==
    \/ FinishInitializing
    \/ ModifyEvent
    \/ IndexingDone
    \/ DeleteEvent
    \/ DebounceFire
    \/ AdvanceClock

SpecDebounce == InitDebounce /\ [][NextDebounce]_vars

\* a debounce timer that is still pending when the clock reaches the end of
\* the modelled time fires after it
LateDebounceFire ==
    \E tm \in timeouts :
        /\ clockMs = MaxClockMs
        /\ clockMs < tm.due
        /\ timeouts' = timeouts \ {tm}
        /\ lastOp' = "rebuild"
        /\ IF isInitializing
           THEN /\ NoDueCheck
                /\ KeepPauseMark
                /\ NoGenerate
                /\ UNCHANGED <<gen, rebuilds>>
           ELSE /\ gen' = gen + 1
                /\ schedule' = generateSchedule(rules, index, now, gen + 1)
                /\ GenerateHistory
                /\ rebuilds' = rebuilds + 1
        /\ UNCHANGED <<now, rules, index, checkInterval, isPaused, timers, nextHandle,
                       stopped, calcVars, extraVars, delivVars, clockMs, isInitializing,
                       rebuildDebounceTimer, nextTimeout, indexing, events, lastEventAt,
                       burst>>

NextDebounceLive ==
    \/ NextDebounce
    \/ LateDebounceFire

\* timers fire when they are due, a started read of a file completes, and
\* time passes
SpecDebounceLive ==
    /\ InitDebounce
    /\ [][NextDebounceLive]_vars
    /\ WF_vars(FinishInitializing)
    /\ WF_vars(IndexingDone)
    /\ WF_vars(DebounceFire)
    /\ WF_vars(LateDebounceFire)
    /\ WF_vars(AdvanceClock)

(***************************************************************************)
(* The duration pattern as a function of the duration string: the parser    *)
(* of the date utilities next to the validator of the rule editor.          *)
(***************************************************************************)
\* the state of a plugin of which no operation has run
NothingRunning ==
    /\ now = T0
    /\ rules = << >>
    /\ index = << >>
    /\ schedule = << >>
    /\ gen = 0
    /\ checkInterval = 0
    /\ isPaused = FALSE
    /\ timers = {}
    /\ nextHandle = 1
    /\ lastOp = "init"
    /\ checked = FALSE
    /\ batch = << >>
    /\ deliveries = << >>
    /\ pausedAt = NoDate
    /\ stopped = FALSE

\* durations with at least one component
WellFormedDurations ==
    { <<"P", "1", "Y">>, <<"P", "1", "M">>, <<"-", "P", "2", "W">>, <<"P", "1", "D">>,
      PT1H, <<"P", "T", "3", "0", "M">>, PT10S_neg, P1D_neg,
      <<"P", "1", "Y", "2", "M">>, <<"P", "1", "D", "T", "1", "H">>,
      <<"+", "P", "1", "D">>, <<"P", "1", "W", "3", "D", "T", "2", "H", "5", "S">> }

\* a designator and no component
NoComponentDurations ==
    { <<"P">>, <<"P", "T">>, <<"-", "P">>, <<"+", "P", "T">>, <<"+", "P">>,
      <<"-", "P", "T">> }

MalformedDurations ==
    { << >>, NoP, BadOffset, <<"P", "1">>, <<"P", "D">>, <<"P", "1", "H">>,
      <<"P", "T", "1", "D">>, <<"P", "1", "D", "T", "1">>, <<"P", "1", "D", "1", "Y">>,
      <<"-", "-", "P", "1", "D">>, <<"P", "1", "D", " ">>, <<"p", "1", "d">>,
      <<"P", "T", "T", "1", "H">>, <<"P", "-", "1", "D">>, <<"T", "1", "H">>,
      <<" ", "P", "1", "D">>, <<"P", "T", "1", "H", "1", "D">> }

DurationStrings == WellFormedDurations \cup NoComponentDurations \cup MalformedDurations

DurationDates == {T0, T0 + 4 * TimeStep, FromCivil(2024, 1, 31, 9, 0, 0)}

InitDuration ==
    /\ NothingRunning
    /\ GenIdle
    /\ ExtraIdle
    /\ DeliverIdle
    /\ DebounceIdle
    /\ calcArgs \in [date : DurationDates, duration : DurationStrings]
    /\ calcResult = NotCalled

\* applyISO8601Duration(date, duration) and
\* RuleValidator.isValidISO8601Duration(duration) on the same string
CallDuration ==
    /\ lastOp = "init"
    /\ calcResult' = [applied |-> applyISO8601Duration(calcArgs.date, calcArgs.duration),
                      valid |-> isValidISO8601Duration(calcArgs.duration)]
    /\ lastOp' = "applyISO8601Duration"
    /\ UNCHANGED <<now, progVars, checked, batch, deliveries, pausedAt, stopped, calcArgs,
                   genVars, delivVars, debVars, extraVars>>

NextDuration == CallDuration

SpecDuration == InitDuration /\ [][NextDuration]_vars

(***************************************************************************)
(* An offset applied and then taken back: applyISO8601Duration with "+D"    *)
(* on an instant, then with "-D" on the instant that call returned.         *)
(***************************************************************************)
\* duration bodies of weeks, days, hours, minutes and seconds only
FixedLengthBodies ==
    { <<"P", "1", "D">>, <<"P", "2", "W">>, <<"P", "T", "1", "H">>,
      <<"P", "T", "3", "0", "M">>, <<"P", "T", "1", "0", "S">>,
      <<"P", "1", "D", "T", "1", "H">>,
      <<"P", "1", "W", "3", "D", "T", "2", "H", "5", "S">> }

\* duration bodies with a component of calendar length
CalendarBodies ==
    { <<"P", "1", "M">>, <<"P", "1", "Y">>, <<"P", "1", "Y", "2", "M">> }

RoundTripDates ==
    { T0, T0 + 4 * TimeStep, FromCivil(2024, 1, 31, 9, 0, 0),
      FromCivil(2024, 2, 29, 12, 0, 0), FromCivil(2024, 3, 31, 23, 59, 59),
      FromCivil(2024, 12, 31, 0, 0, 0) }

InitRoundTrip ==
    /\ NothingRunning
    /\ GenIdle
    /\ ExtraIdle
    /\ DeliverIdle
    /\ DebounceIdle
    /\ calcArgs \in [date : RoundTripDates, duration : FixedLengthBodies \cup CalendarBodies]
    /\ calcResult = NotCalled

\* applyISO8601Duration(date, "+" + D)
ApplyForward ==
    /\ lastOp = "init"
    /\ calcResult' = [forward |-> applyISO8601Duration(calcArgs.date,
                                                       <<"+">> \o calcArgs.duration),
                      back |-> NotCalled]
    /\ lastOp' = "applyForward"
    /\ UNCHANGED <<now, progVars, checked, batch, deliveries, pausedAt, stopped, calcArgs,
                   genVars, delivVars, debVars, extraVars>>

\* applyISO8601Duration(result, "-" + D) on the instant the first call returned
ApplyBack ==
    /\ lastOp = "applyForward"
    /\ calcResult.forward # NoDate
    /\ calcResult' = [calcResult EXCEPT
                         !.back = applyISO8601Duration(calcResult.forward,
                                                       <<"-">> \o calcArgs.duration)]
    /\ lastOp' = "applyBack"
    /\ UNCHANGED <<now, progVars, checked, batch, deliveries, pausedAt, stopped, calcArgs,
                   genVars, delivVars, debVars, extraVars>>

NextRoundTrip ==
    \/ ApplyForward
    \/ ApplyBack

SpecRoundTrip == InitRoundTrip /\ [][NextRoundTrip]_vars

(***************************************************************************)
(* calculateFireTimes as a function of the matched date, the offsets list   *)
(* and the default time of the rule.                                        *)
(***************************************************************************)
PT0S == <<"P", "T", "0", "S">>

FireOffsetLists ==
    { << >>, <<P1D_neg>>, <<P1D_neg, P1D_neg>>, <<PT1H, PT10S_neg, P1D_neg>>,
      <<PT0S>>, <<PT0S, PT1H, PT0S>>, <<P1D_neg, BadOffset>>, <<BadOffset>> }

FireDates ==
    { FromCivil(2025, 2, 20, 0, 0, 0), FromCivil(2025, 2, 20, 14, 30, 0),
      FromCivil(2024, 2, 29, 0, 0, 0) }

InitFire ==
    /\ NothingRunning
    /\ GenIdle
    /\ ExtraIdle
    /\ DeliverIdle
    /\ DebounceIdle
    /\ calcArgs \in [originalDate : FireDates, offsets : FireOffsetLists,
                     defaultTime : {<< >>, HHMM0900}, repeat : {"none", "yearly"}]
    /\ calcResult = NotCalled

\* calculateFireTimes(originalDate, rule.offsets, defaultTime, rule.repeat)
CallCalculateFireTimes ==
    /\ lastOp = "init"
    /\ calcResult' = calculateFireTimes(calcArgs.originalDate, calcArgs.offsets,
                                        calcArgs.defaultTime, calcArgs.repeat)
    /\ lastOp' = "calculateFireTimes"
    /\ UNCHANGED <<now, progVars, checked, batch, deliveries, pausedAt, stopped, calcArgs,
                   genVars, delivVars, debVars, extraVars>>

NextFire == CallCalculateFireTimes

SpecFire == InitFire /\ [][NextFire]_vars

(***************************************************************************)
(* The advancement of one candidate fire time, statement by statement: the  *)
(* while loop of generateOccurrencesForDate and, inside it, the loop of     *)
(* getNextOccurrence.  calcResult holds the position (pc), the loop         *)
(* variable fireTime, the moment m of getNextOccurrence, and the number of  *)
(* getNextOccurrence calls that returned a date (calls) or null (nulls).    *)
(***************************************************************************)
AdvanceDates ==
    { FromCivil(1985, 2, 20, 0, 0, 0), FromCivil(2024, 1, 31, 9, 0, 0),
      FromCivil(2024, 2, 29, 0, 0, 0), FromCivil(2025, 2, 20, 9, 0, 0),
      FromCivil(2025, 3, 10, 9, 0, 0), FromCivil(2025, 3, 10, 9, 0, 1) }

AdvanceNows == { FromCivil(2025, 3, 10, 9, 0, 0), FromCivil(2025, 2, 28, 23, 59, 59) }

\* the repeat patterns of the settings and a value that is none of them
AdvanceRepeats == RepeatPattern \cup {"hourly"}

InitAdvance ==
    /\ NothingRunning
    /\ GenIdle
    /\ ExtraIdle
    /\ DeliverIdle
    /\ DebounceIdle
    /\ calcArgs \in [fireTime : AdvanceDates, repeat : AdvanceRepeats, now : AdvanceNows]
    /\ calcResult = [pc |-> "while", fireTime |-> calcArgs.fireTime, m |-> NoDate,
                     calls |-> 0, nulls |-> 0]

AdvanceFrame ==
    UNCHANGED <<now, progVars, checked, batch, deliveries, pausedAt, stopped, calcArgs,
                genVars, delivVars, debVars, extraVars>>

\* if (rule.repeat !== 'none') { while (fireTime && fireTime < now) {
\*     const nextOccurrence = getNextOccurrence(fireTime, rule.repeat, now)
LoopTest ==
    /\ calcResult.pc = "while"
    /\ calcResult' =
          IF calcArgs.repeat # "none" /\ calcResult.fireTime < calcArgs.now
          THEN [calcResult EXCEPT !.pc = "switch", !.m = calcResult.fireTime]
          ELSE [calcResult EXCEPT !.pc = "exit"]
    /\ lastOp' = "loopTest"
    /\ AdvanceFrame

\* while (m.isSameOrBefore(from)) { m.add(1, unit) }: one pass of the body
AddOneUnit ==
    /\ calcResult.pc = "switch"
    /\ calcArgs.repeat \in {"daily", "weekly", "monthly", "yearly"}
    /\ calcResult.m <= calcArgs.now
    /\ calcResult' = [calcResult EXCEPT !.m = AddUnit(calcResult.m, calcArgs.repeat)]
    /\ lastOp' = "add"
    /\ AdvanceFrame

\* return m.toDate(), taken by: if (nextOccurrence) { fireTime = nextOccurrence }
ReturnDate ==
    /\ calcResult.pc = "switch"
    /\ calcArgs.repeat \in {"daily", "weekly", "monthly", "yearly"}
    /\ calcResult.m > calcArgs.now
    /\ calcResult' = [calcResult EXCEPT !.pc = "while", !.fireTime = calcResult.m,
                                        !.calls = calcResult.calls + 1]
    /\ lastOp' = "returnDate"
    /\ AdvanceFrame

\* default: return null, taken by: else { break }
ReturnNull ==
    /\ calcResult.pc = "switch"
    /\ calcArgs.repeat \notin RepeatPattern
    /\ calcResult' = [calcResult EXCEPT !.pc = "exit", !.nulls = calcResult.nulls + 1]
    /\ lastOp' = "returnNull"
    /\ AdvanceFrame

NextAdvance ==
    \/ LoopTest
    \/ AddOneUnit
    \/ ReturnDate
    \/ ReturnNull

\* the loops are synchronous code: a statement that can run does run
SpecAdvance == InitAdvance /\ [][NextAdvance]_vars /\ WF_vars(NextAdvance)

(***************************************************************************)
(* resolveMessageTemplate as a function of the template and the context.    *)
(***************************************************************************)
MsgTemplates ==
    { <<"Task due: ", "{title}">>,
      <<"{title}", " on ", "{date}">>,
      <<"{title}", " (", "{field}", ") ", "{path}">>,
      <<"{unknown}", " ", "{title}", "{title}">>,
      <<"{path}", ": ", "{title}", " ", "{date}">>,
      <<"no placeholders">>,
      << >> }

\* document titles (file base names): plain text, text that holds the text
\* of a placeholder, text that holds a replacement pattern
MsgTitles ==
    { <<"Report">>, <<"About ", "{path}">>, <<"{date}", " log">>, <<"{field}">>,
      <<"Cost ", "$&">>, << >> }

MsgFields == {"due", "start-date"}

MsgPaths == {"a.md", "dir/{notes}.md"}

InitMsg ==
    /\ NothingRunning
    /\ GenIdle
    /\ ExtraIdle
    /\ DeliverIdle
    /\ DebounceIdle
    /\ calcArgs \in [template : MsgTemplates, title : MsgTitles, field : MsgFields,
                     date : {formatDate(T0)}, path : MsgPaths]
    /\ calcResult = NotCalled

\* resolveMessageTemplate(rule.messageTemplate, context)
CallResolveMessageTemplate ==
    /\ lastOp = "init"
    /\ calcResult' = resolveMessageTemplate(calcArgs.template,
                        [title |-> calcArgs.title, field |-> calcArgs.field,
                         date |-> calcArgs.date, path |-> calcArgs.path])
    /\ lastOp' = "resolveMessageTemplate"
    /\ UNCHANGED <<now, progVars, checked, batch, deliveries, pausedAt, stopped, calcArgs,
                   genVars, delivVars, debVars, extraVars>>

NextMsg == CallResolveMessageTemplate

SpecMsg == InitMsg /\ [][NextMsg]_vars

(***************************************************************************)
(* generateSchedule on an index that holds values that are no dates.        *)
(***************************************************************************)
NoteBroken == [path |-> "x.md", title |-> <<"Broken">>,
               dates |-> << [field |-> "due", value |-> NoDate] >>]

AbortIndexes ==
    { <<NoteA, NoteB>>, <<NoteA, NoteBroken, NoteB>>, <<NoteBroken, NoteA>>,
      <<NoteA, NoteB, NoteBroken>>, <<NoteBroken>> }

AbortRuleLists == RuleLists \cup { <<RuleMeetMonthly, RuleDueNone>> }

AbortNows == {T0, T0 + TimeStep, T0 + 3 * TimeStep}

InitAbort ==
    /\ now \in AbortNows
    /\ rules \in AbortRuleLists
    /\ index \in AbortIndexes
    /\ schedule = << >>
    /\ gen = 0
    /\ checkInterval = 0
    /\ isPaused = FALSE
    /\ timers = {}
    /\ nextHandle = 1
    /\ lastOp = "init"
    /\ checked = FALSE
    /\ batch = << >>
    /\ deliveries = << >>
    /\ pausedAt = NoDate
    /\ stopped = FALSE
    /\ CalcIdle
    /\ GenIdle
    /\ ExtraIdle
    /\ DeliverIdle
    /\ DebounceIdle

\* a call of generateSchedule(settings.rules, index): this.schedule.clear(),
\* then the loops, left by the first exception
GenerateScheduleOrThrow ==
    LET r == generateScheduleOrThrow(rules, index, now, gen + 1)
    IN  /\ gen < MaxGen
        /\ lastOp' = "generate"
        /\ gen' = gen + 1
        /\ schedule' = r.store
        /\ aborted' = r.threw
        /\ generated' = r.store
        /\ generatedAt' = now
        /\ repeatedCall' = (gen >= 1 /\ generatedAt = now)
        /\ replacedFired' = FALSE
        /\ deliveries' = [k \in 1 .. Len(r.store) |-> 0]
        /\ checked' = FALSE
        /\ batch' = << >>
        /\ KeepPauseMark
        /\ UNCHANGED <<now, rules, index, checkInterval, isPaused, timers, nextHandle,
                       stopped, candidates, calcVars, delivVars, debVars, modalVars, pluginVars,
                   notificationsPaused, lateVars>>

NextAbort == GenerateScheduleOrThrow

SpecAbort == InitAbort /\ [][NextAbort]_vars

(***************************************************************************)
(* The upcoming-notifications modal next to the running dispatcher.         *)
(***************************************************************************)
\* the limit of the "show upcoming" command, and a limit that cuts the list
UpcomingLimits == {1, 20}

\* how often the modal is opened, and how many of its buttons are pressed
MaxShows == 1
MaxFireNow == 1

\* the number of times the modal has been opened
Shows(modal) == IF modal = << >> THEN 0 ELSE modal.shows

ModalRuleLists == { <<RuleDueNoneEarly>>, <<RuleDueDaily, RuleDueNone>> }

ModalIndexes == { <<NoteA, NoteB>>, <<NoteB, NoteA>> }

InitModal ==
    /\ now = T0
    /\ rules \in ModalRuleLists
    /\ index \in ModalIndexes
    /\ schedule = << >>
    /\ gen = 0
    /\ checkInterval = 0
    /\ isPaused = FALSE
    /\ timers = {}
    /\ nextHandle = 1
    /\ lastOp = "init"
    /\ checked = FALSE
    /\ batch = << >>
    /\ deliveries = << >>
    /\ pausedAt = NoDate
    /\ stopped = FALSE
    /\ CalcIdle
    /\ GenIdle
    /\ ExtraIdle
    /\ DeliverIdle
    /\ DebounceIdle

\* the "show upcoming" command: scheduler.getUpcomingOccurrences(limit), then
\* new UpcomingNotificationsModal(app, upcoming, dispatcher).open()
ShowUpcoming ==
    \E limit \in UpcomingLimits :
        /\ Shows(upcoming) < MaxShows
        /\ upcoming' = [limit |-> limit, shows |-> Shows(upcoming) + 1,
                        list |-> getUpcomingOccurrences(schedule, now, limit)]
        /\ lastOp' = "upcoming"
        /\ NoDueCheck
        /\ KeepPauseMark
        /\ NoGenerate
        /\ UNCHANGED <<now, rules, index, gen, checkInterval, isPaused, timers, nextHandle,
                       stopped, calcVars, delivVars, debVars, manual, firedNow, aborted, pluginVars,
                   notificationsPaused, lateVars>>

\* (a Fire Now button that also marks the occurrence as fired)
FireNow_marksFired ==
    /\ upcoming # << >>
    /\ Cardinality(firedNow) < MaxFireNow
    /\ \E i \in 1 .. Len(upcoming.list) :
          /\ upcoming.list[i].id \notin firedNow
          /\ manual' = fireNotification(upcoming.list[i], permission, faults)
          /\ firedNow' = firedNow \cup {upcoming.list[i].id}
          /\ schedule' = markAsFired(schedule, upcoming.list[i].id)
    /\ lastOp' = "fireNow"
    /\ checked' = FALSE
    /\ batch' = << >>
    /\ KeepPauseMark
    /\ NoGenerate
    /\ UNCHANGED <<now, rules, index, gen, checkInterval, isPaused, timers, nextHandle,
                   stopped, deliveries, calcVars, delivVars, debVars, upcoming, aborted,
                   pluginVars,
                   notificationsPaused, lateVars>>

\* the Fire Now button of a listed occurrence:
\* this.dispatcher.fireNotification(occurrence); the button is then disabled
FireNow ==
    /\ upcoming # << >>
    /\ Cardinality(firedNow) < MaxFireNow
    /\ \E i \in 1 .. Len(upcoming.list) :
          /\ upcoming.list[i].id \notin firedNow
          /\ manual' = fireNotification(upcoming.list[i], permission, faults)
          /\ firedNow' = firedNow \cup {upcoming.list[i].id}
    /\ lastOp' = "fireNow"
    /\ NoDueCheck
    /\ KeepPauseMark
    /\ NoGenerate
    /\ UNCHANGED <<now, rules, index, gen, checkInterval, isPaused, timers, nextHandle,
                   stopped, calcVars, delivVars, debVars, upcoming, aborted, pluginVars,
                   notificationsPaused, lateVars>>

NextModal ==
    \/ GenerateSchedule
    \/ AdvanceTime
    \/ start
    \/ pause
    \/ resume
    \/ TimerTick
    \/ ShowUpcoming
    \/ FireNow

SpecModal == InitModal /\ [][NextModal]_vars

(***************************************************************************)
(* The life of the plugin: load, layout ready, the settings tab with the    *)
(* rule editor, the persisted blob, unload.                                 *)
(***************************************************************************)
\* the documents of the vault, as indexVault() stores them
Vault == <<NoteA, NoteB>>

PluginRuleLists == { <<RuleDueNone>>, <<RuleDueDaily, RuleDisabled>> }

\* the rules the editor can add, the offsets it can hold, and the changes
\* made in editors
MaxRules == 2
MaxOffsets == 1
MaxEdits == 1

\* the store an earlier session generated from the rules, and the same store
\* after that session's due-checks up to t
PreviousSchedule(ruleList) == generateSchedule(ruleList, Vault, T0, 0)

FiredUpTo(store, t) ==
    [k \in 1 .. Len(store) |-> [store[k] EXCEPT !.fired = (store[k].fireTime <= t)]]

PersistedSchedules(ruleList) ==
    { << >>, PreviousSchedule(ruleList),
      FiredUpTo(PreviousSchedule(ruleList), T0 + 2 * TimeStep) }

PersistedBlobs ==
    UNION { [rules : {ruleList}, privacyMode : BOOLEAN,
             schedule : PersistedSchedules(ruleList),
             notificationsPaused : BOOLEAN] : ruleList \in PluginRuleLists }

debRest == <<clockMs, rebuildDebounceTimer, timeouts, nextTimeout, indexing, events,
             lastEventAt, burst, rebuilds>>

InitPlugin ==
    /\ now = T0 + 5 * TimeStep
    /\ rules = << >>
    /\ index = << >>
    /\ schedule = << >>
    /\ gen = 0
    /\ checkInterval = 0
    /\ isPaused = FALSE
    /\ timers = {}
    /\ nextHandle = 1
    /\ lastOp = "init"
    /\ checked = FALSE
    /\ batch = << >>
    /\ deliveries = << >>
    /\ pausedAt = NoDate
    /\ stopped = FALSE
    /\ CalcIdle
    /\ GenIdle
    /\ ModalIdle
    /\ aborted = FALSE
    /\ DeliverIdle
    /\ clockMs = 0
    /\ isInitializing = TRUE
    /\ rebuildDebounceTimer = 0
    /\ timeouts = {}
    /\ nextTimeout = 1
    /\ indexing = 0
    /\ events = 0
    /\ lastEventAt = NoDate
    /\ burst = TRUE
    /\ rebuilds = 0
    /\ phase = "constructed"
    /\ privacyMode = FALSE
    /\ disk \in PersistedBlobs
    /\ loadedSchedule = << >>
    /\ editor = << >>
    /\ passedRules = << >>
    /\ edits = 0
    /\ notificationsPaused = FALSE
    /\ LateIdle

\* a step of the plugin that neither runs a due-check nor generates
PluginQuiet ==
    /\ NoDueCheck
    /\ KeepPauseMark
    /\ NoGenerate

\* (a loadSchedule that runs in privacy mode too)
LoadSchedule_ignoresPrivacy(blob) == importSchedule(blob.schedule)

\* if (!this.settings.privacyMode) await this.loadSchedule(): the store
LoadSchedule(blob) ==
    IF ~blob.privacyMode THEN importSchedule(blob.schedule) ELSE << >>

\* onload: loadSettings(), new ScheduleGenerator(), loadSchedule() unless in
\* privacy mode; the settings tab and the commands are registered
OnLoad ==
    /\ phase = "constructed"
    /\ phase' = "loaded"
    /\ lastOp' = "onload"
    /\ rules' = disk.rules
    /\ privacyMode' = disk.privacyMode
    /\ notificationsPaused' = disk.notificationsPaused
    /\ loadedSchedule' = disk.schedule
    /\ schedule' = LoadSchedule(disk)
    /\ deliveries' = [k \in 1 .. Len(schedule') |-> 0]
    /\ checked' = FALSE
    /\ batch' = << >>
    /\ KeepPauseMark
    /\ NoGenerate
    /\ UNCHANGED <<now, index, gen, checkInterval, isPaused, timers, nextHandle, stopped,
                   calcVars, delivVars, debVars, modalVars, aborted, disk, editor,
                   passedRules, edits, lateVars>>

\* the onLayoutReady callback: indexVault(), rebuildSchedule() (which returns
\* at once, isInitializing being still true), dispatcher.start() with its
\* immediate due-check, dispatcher.pause() if settings.notificationsPaused,
\* and the 2 s timer that ends the initialisation
LayoutReady ==
    /\ phase = "loaded"
    /\ phase' = "ready"
    /\ lastOp' = "layoutReady"
    /\ index' = Vault
    /\ checkInterval' = nextHandle
    /\ nextHandle' = nextHandle + 1
    /\ timers' = timers \cup
          {[handle |-> nextHandle, due |-> now + checkIntervalMs \div MsPerSec]}
    /\ DueCheck
    /\ isPaused' = (isPaused \/ notificationsPaused)
    /\ pausedAt' = IF isPaused THEN pausedAt
                   ELSE IF notificationsPaused THEN now ELSE NoDate
    /\ NoGenerate
    /\ UNCHANGED <<now, rules, gen, stopped, calcVars, delivVars, debVars,
                   modalVars, aborted, privacyMode, disk, loadedSchedule, editor,
                   passedRules, edits,
                   notificationsPaused, lateVars>>

\* setTimeout(() => { this.isInitializing = false }, 2000) fires
InitTimerFires ==
    /\ phase = "ready"
    /\ isInitializing
    /\ isInitializing' = FALSE
    /\ lastOp' = "initialized"
    /\ PluginQuiet
    /\ UNCHANGED <<now, rules, index, gen, checkInterval, isPaused, timers, nextHandle,
                   stopped, calcVars, delivVars, debRest, modalVars, aborted, pluginVars,
                   notificationsPaused, lateVars>>

\* saveSchedule: data = loadData() || {}; data.schedule = exportSchedule();
\* saveData(data)
saveSchedule(blob, store) == [blob EXCEPT !.schedule = exportSchedule(store)]

\* (a rebuild that saves the schedule whatever the privacy mode)
BlobAfterRebuild_alwaysSaves(blob, store, privacy) == saveSchedule(blob, store)

\* rebuildSchedule: if (!this.settings.privacyMode) await this.saveSchedule()
BlobAfterRebuild(blob, store, privacy) ==
    IF privacy THEN blob ELSE saveSchedule(blob, store)

\* rebuildSchedule past its isInitializing test, `calls` times in a row:
\* indexVault() if the index is empty, generateSchedule(settings.rules, index),
\* saveSchedule() unless in privacy mode; blob is the persisted blob before it
Regenerate(ruleList, privacy, blob, calls) ==
    /\ gen' = gen + calls
    /\ index' = IF Len(index) = 0 THEN Vault ELSE index
    /\ schedule' = generateSchedule(ruleList, index', now, gen + calls)
    /\ passedRules' = ruleList
    /\ disk' = BlobAfterRebuild(blob, schedule', privacy)
    /\ generated' = schedule'
    /\ generatedAt' = now
    /\ repeatedCall' = FALSE
    /\ replacedFired' = (\E k \in 1 .. Len(schedule) : schedule[k].fired)
    /\ deliveries' = [k \in 1 .. Len(schedule') |-> 0]
    /\ checked' = FALSE
    /\ batch' = << >>
    /\ KeepPauseMark
    /\ UNCHANGED candidates

\* saveSettings after the settings changed to (ruleList, privacy):
\* saveData(this.settings), then rebuildSchedule() if (!this.isInitializing);
\* `calls` counts that rebuild and the rebuildSchedule() calls of the handler
SaveSettings(ruleList, privacy, calls) ==
    /\ isInitializing \/ gen < MaxGen
    /\ rules' = ruleList
    /\ privacyMode' = privacy
    /\ IF isInitializing
       THEN /\ disk' = [rules |-> ruleList, privacyMode |-> privacy,
                        schedule |-> loadedSchedule,
                        notificationsPaused |-> notificationsPaused]
            /\ PluginQuiet
            /\ UNCHANGED <<gen, index, passedRules>>
       ELSE Regenerate(ruleList, privacy,
                       [rules |-> ruleList, privacyMode |-> privacy,
                        schedule |-> loadedSchedule,
                        notificationsPaused |-> notificationsPaused], calls)
    /\ UNCHANGED <<now, checkInterval, isPaused, timers, nextHandle, stopped, calcVars,
                   delivVars, debVars, modalVars, aborted, phase, loadedSchedule, edits,
                   notificationsPaused, lateVars>>

\* the plugin is loaded and no rule editor (a modal) is open
SettingsTabOpen == phase \in {"loaded", "ready"} /\ editor = << >>

\* the enable/disable button of a rule: rule.enabled = !rule.enabled;
\* saveSettings(); rebuildSchedule()
ToggleRule ==
    /\ SettingsTabOpen
    /\ \E i \in 1 .. Len(rules) :
          SaveSettings([rules EXCEPT ![i].enabled = ~rules[i].enabled], privacyMode, 2)
    /\ lastOp' = "toggleRule"
    /\ UNCHANGED editor

\* the delete button of a rule: rules.splice(index, 1); saveSettings();
\* rebuildSchedule()
DeleteRule ==
    /\ SettingsTabOpen
    /\ \E i \in 1 .. Len(rules) :
          SaveSettings(SubSeq(rules, 1, i - 1) \o SubSeq(rules, i + 1, Len(rules)),
                       privacyMode, 2)
    /\ lastOp' = "deleteRule"
    /\ UNCHANGED editor

\* the privacy mode toggle: settings.privacyMode = value; saveSettings()
TogglePrivacy ==
    /\ SettingsTabOpen
    /\ SaveSettings(rules, ~privacyMode, 1)
    /\ lastOp' = "privacy"
    /\ UNCHANGED editor

\* the reindex-vault command: indexVault(); rebuildSchedule()
ReindexVault ==
    /\ SettingsTabOpen
    /\ isInitializing \/ gen < MaxGen
    /\ lastOp' = "reindex"
    /\ IF isInitializing
       THEN /\ index' = Vault
            /\ PluginQuiet
            /\ UNCHANGED <<gen, disk, passedRules>>
       ELSE Regenerate(rules, privacyMode, disk, 1)
    /\ UNCHANGED <<now, rules, checkInterval, isPaused, timers, nextHandle, stopped,
                   calcVars, delivVars, debVars, modalVars, aborted, phase, privacyMode,
                   loadedSchedule, editor, edits,
                   notificationsPaused, lateVars>>

\* RuleEditorModal.createNewRule
NewRule ==
    [id |-> "new", field |-> "", defaultTime |-> HHMM0900, offsets |-> << >>,
     repeat |-> "none", messageTemplate |-> << >>, channels |-> <<"obsidian">>,
     enabled |-> TRUE]

\* what the controls of the editor can be set to
RuleEdits ==
    [kind : {"field"}, value : {"due date", "meet"}]
    \cup [kind : {"defaultTime"}, value : {<<"2", "5", ":", "0", "0">>}]
    \cup [kind : {"addOffset"}, value : {""}]
    \cup [kind : {"messageTemplate"}, value : {<< >>, <<"Due: ", "{title}">>}]
    \cup [kind : {"channels"}, value : {<< >>}]

\* the onChange handlers: this.rule.field = value, this.rule.defaultTime =
\* value, this.rule.offsets.push(''), this.rule.messageTemplate = value,
\* this.rule.channels = channels
ApplyEdit(rule, edit) ==
    CASE edit.kind = "field" -> [rule EXCEPT !.field = edit.value]
      [] edit.kind = "defaultTime" -> [rule EXCEPT !.defaultTime = edit.value]
      [] edit.kind = "addOffset" -> [rule EXCEPT !.offsets = Append(@, << >>)]
      [] edit.kind = "messageTemplate" -> [rule EXCEPT !.messageTemplate = edit.value]
      [] edit.kind = "channels" -> [rule EXCEPT !.channels = edit.value]

EditApplies(rule, edit) == edit.kind = "addOffset" => Len(rule.offsets) < MaxOffsets

\* the position in settings.rules of the rule the editor was opened on
EditedIndex == CHOOSE i \in 1 .. Len(rules) : rules[i].id = editor.id

\* this.rule of the open editor: the rule object of settings.rules itself, or
\* the object createNewRule() made
EditedRule == IF editor.isNew THEN editor.rule ELSE rules[EditedIndex]

\* the edit button of a rule, or "Add rule": new RuleEditorModal(app, rule,
\* onSave).open(), with this.rule = rule || this.createNewRule()
OpenRuleEditor ==
    /\ SettingsTabOpen
    /\ \/ \E i \in 1 .. Len(rules) :
             editor' = [id |-> rules[i].id, isNew |-> FALSE, rule |-> << >>]
       \/ /\ Len(rules) < MaxRules
          /\ \A i \in 1 .. Len(rules) : rules[i].id # NewRule.id
          /\ editor' = [id |-> NewRule.id, isNew |-> TRUE, rule |-> NewRule]
    /\ lastOp' = "openEditor"
    /\ PluginQuiet
    /\ UNCHANGED <<now, rules, index, gen, checkInterval, isPaused, timers, nextHandle,
                   stopped, calcVars, delivVars, debVars, modalVars, aborted, phase,
                   privacyMode, disk, loadedSchedule, passedRules, edits,
                   notificationsPaused, lateVars>>

\* a control of the open editor is changed: its onChange handler writes to
\* this.rule
EditRule ==
    /\ editor # << >>
    /\ phase \in {"loaded", "ready"}
    /\ \E edit \in RuleEdits :
          /\ EditApplies(EditedRule, edit)
          /\ IF editor.isNew
             THEN /\ editor' = [editor EXCEPT !.rule = ApplyEdit(editor.rule, edit)]
                  /\ UNCHANGED rules
             ELSE /\ rules' = [rules EXCEPT ![EditedIndex] = ApplyEdit(rules[EditedIndex], edit)]
                  /\ UNCHANGED editor
    /\ lastOp' = "edit"
    /\ edits < MaxEdits
    /\ edits' = edits + 1
    /\ PluginQuiet
    /\ UNCHANGED <<now, index, gen, checkInterval, isPaused, timers, nextHandle,
                   stopped, calcVars, delivVars, debVars, modalVars, aborted, phase,
                   privacyMode, disk, loadedSchedule, passedRules,
                   notificationsPaused, lateVars>>

\* the Cancel button: this.close()
CancelEditor ==
    /\ editor # << >>
    /\ phase \in {"loaded", "ready"}
    /\ editor' = << >>
    /\ lastOp' = "cancelEditor"
    /\ PluginQuiet
    /\ UNCHANGED <<now, rules, index, gen, checkInterval, isPaused, timers, nextHandle,
                   stopped, calcVars, delivVars, debVars, modalVars, aborted, phase,
                   privacyMode, disk, loadedSchedule, passedRules, edits,
                   notificationsPaused, lateVars>>

\* the Save button: RuleEditorModal.save(), and for a rule without errors the
\* onSave callback of openRuleEditor: rules[index] = savedRule or
\* rules.push(savedRule); saveSettings(); rebuildSchedule()
SaveEditor ==
    /\ editor # << >>
    /\ phase \in {"loaded", "ready"}
    /\ IF validateRule(EditedRule) # {}
       THEN /\ lastOp' = "rejected"
            /\ PluginQuiet
            /\ UNCHANGED <<now, rules, index, gen, checkInterval, isPaused, timers,
                           nextHandle, stopped, calcVars, delivVars, debVars, modalVars,
                           aborted, phase, privacyMode, disk, loadedSchedule, editor,
                           passedRules, edits,
                   notificationsPaused, lateVars>>
       ELSE /\ lastOp' = "saveRule"
            /\ editor' = << >>
            /\ SaveSettings(IF editor.isNew THEN Append(rules, editor.rule) ELSE rules,
                            privacyMode, 2)

\* onunload: dispatcher.stop(); if (!this.settings.privacyMode) saveSchedule()
OnUnload ==
    /\ phase \in {"loaded", "ready"}
    /\ phase' = "unloaded"
    /\ lastOp' = "onunload"
    /\ stopped' = TRUE
    /\ timers' = {tm \in timers : tm.handle # checkInterval}
    /\ checkInterval' = 0
    /\ disk' = IF ~privacyMode THEN saveSchedule(disk, schedule) ELSE disk
    /\ PluginQuiet
    /\ UNCHANGED <<now, rules, index, gen, isPaused, nextHandle, calcVars, delivVars,
                   debVars, modalVars, aborted, privacyMode, loadedSchedule, editor,
                   passedRules, edits,
                   notificationsPaused, lateVars>>

NextPlugin ==
    \/ OnLoad
    \/ LayoutReady
    \/ InitTimerFires
    \/ ToggleRule
    \/ DeleteRule
    \/ TogglePrivacy
    \/ ReindexVault
    \/ OpenRuleEditor
    \/ EditRule
    \/ CancelEditor
    \/ SaveEditor
    \/ OnUnload

SpecPlugin == InitPlugin /\ [][NextPlugin]_vars

(***************************************************************************)
(* The persisted blob under saves that overlap.  saveSettings and           *)
(* saveSchedule are asynchronous and their callers do not await them: each  *)
(* runs up to its next loadData()/saveData() and continues when that file   *)
(* operation completes.  tasks holds the file operations in flight; they    *)
(* complete in the order they were issued.                                  *)
(***************************************************************************)
MaxSaves == 3       \* number of commands and debounced rebuilds explored

PersistNow == T0 + 3 * TimeStep

\* this.settings as saveData(this.settings) serialises it: the schedule key
\* is the one loadSettings copied from the blob
SettingsBlob(paused) ==
    [rules |-> rules, privacyMode |-> privacyMode, schedule |-> loadedSchedule,
     notificationsPaused |-> paused]

\* saveSettings calls whose saveData has not completed yet
PendingSettingsWrites == {i \in 1 .. Len(tasks) : tasks[i].pc = "writeSettings"}

SavesStarted == gen + Cardinality(PendingSettingsWrites)

InitPersist ==
    /\ now = PersistNow
    /\ rules = <<RuleDueNone>>
    /\ index = Vault
    /\ schedule \in {<< >>, PreviousSchedule(<<RuleDueNone>>)}
    /\ gen = 0
    /\ checkInterval = 0
    /\ isPaused = FALSE
    /\ timers = {}
    /\ nextHandle = 1
    /\ lastOp = "init"
    /\ checked = FALSE
    /\ batch = << >>
    /\ deliveries = [k \in 1 .. Len(schedule) |-> 0]
    /\ pausedAt = NoDate
    /\ stopped = FALSE
    /\ CalcIdle
    /\ GenIdle
    /\ ModalIdle
    /\ aborted = FALSE
    /\ DeliverIdle
    /\ DebounceIdle
    /\ phase = "ready"
    /\ privacyMode = FALSE
    /\ disk = [rules |-> rules, privacyMode |-> FALSE, schedule |-> schedule,
               notificationsPaused |-> FALSE]
    /\ loadedSchedule = schedule
    /\ editor = << >>
    /\ passedRules = << >>
    /\ edits = 0
    /\ notificationsPaused = FALSE
    /\ tasks = << >>
    /\ IndexerIdle

PersistFrame ==
    UNCHANGED <<now, rules, index, checkInterval, timers, nextHandle, stopped, calcVars,
                delivVars, debVars, modalVars, aborted, phase, privacyMode,
                loadedSchedule, editor, passedRules, edits, indexerVars>>

\* rebuildSchedule up to the await of saveSchedule: generateSchedule(rules,
\* index), exportSchedule(), and loadData() issued
RebuildUntilLoadData(queue) ==
    /\ gen' = gen + 1
    /\ schedule' = generateSchedule(rules, index, now, gen + 1)
    /\ GenerateHistory
    /\ tasks' = Append(queue, [op |-> "saveSchedule", pc |-> "loadData",
                               data |-> exportSchedule(schedule')])

\* the pause-notifications command: dispatcher.pause();
\* settings.notificationsPaused = true; this.saveSettings() (not awaited)
PauseCommand ==
    /\ SavesStarted < MaxSaves
    /\ lastOp' = "pauseCommand"
    /\ isPaused' = TRUE
    /\ pausedAt' = IF isPaused THEN pausedAt ELSE now
    /\ notificationsPaused' = TRUE
    /\ tasks' = Append(tasks, [op |-> "saveSettings", pc |-> "writeSettings",
                               data |-> SettingsBlob(TRUE)])
    /\ NoDueCheck
    /\ NoGenerate
    /\ UNCHANGED <<gen, disk>>
    /\ PersistFrame

\* the resume-notifications command: dispatcher.resume();
\* settings.notificationsPaused = false; this.saveSettings() (not awaited)
ResumeCommand ==
    /\ SavesStarted < MaxSaves
    /\ lastOp' = "resumeCommand"
    /\ isPaused' = FALSE
    /\ pausedAt' = NoDate
    /\ notificationsPaused' = FALSE
    /\ tasks' = Append(tasks, [op |-> "saveSettings", pc |-> "writeSettings",
                               data |-> SettingsBlob(FALSE)])
    /\ DueCheck
    /\ NoGenerate
    /\ UNCHANGED <<gen, disk>>
    /\ PersistFrame

\* the debounce timer fires: rebuildSchedule()
DebouncedRebuild ==
    /\ SavesStarted < MaxSaves
    /\ lastOp' = "rebuild"
    /\ RebuildUntilLoadData(tasks)
    /\ UNCHANGED <<isPaused, notificationsPaused, disk>>
    /\ PersistFrame

\* await this.saveData(this.settings) of saveSettings completes; saveSettings
\* goes on to rebuildSchedule(), isInitializing being false
SettingsWritten ==
    /\ Len(tasks) > 0
    /\ Head(tasks).pc = "writeSettings"
    /\ lastOp' = "settingsWritten"
    /\ disk' = Head(tasks).data
    /\ RebuildUntilLoadData(Tail(tasks))
    /\ UNCHANGED <<isPaused, notificationsPaused>>
    /\ PersistFrame

\* await this.loadData() of saveSchedule completes: data.schedule = schedule;
\* saveData(data) issued
BlobRead ==
    /\ Len(tasks) > 0
    /\ Head(tasks).pc = "loadData"
    /\ lastOp' = "blobRead"
    /\ tasks' = Append(Tail(tasks),
                       [op |-> "saveSchedule", pc |-> "saveData",
                        data |-> saveSchedule(disk, Head(tasks).data)])
    /\ PluginQuiet
    /\ UNCHANGED <<gen, isPaused, notificationsPaused, disk>>
    /\ PersistFrame

\* await this.saveData(data) of saveSchedule completes
BlobWritten ==
    /\ Len(tasks) > 0
    /\ Head(tasks).pc = "saveData"
    /\ lastOp' = "blobWritten"
    /\ disk' = Head(tasks).data
    /\ tasks' = Tail(tasks)
    /\ PluginQuiet
    /\ UNCHANGED <<gen, isPaused, notificationsPaused>>
    /\ PersistFrame

NextPersist ==
    \/ PauseCommand
    \/ ResumeCommand
    \/ DebouncedRebuild
    \/ SettingsWritten
    \/ BlobRead
    \/ BlobWritten

SpecPersist == InitPersist /\ [][NextPersist]_vars

(***************************************************************************)
(* VaultIndexer (indexer.ts) with the callers of indexVault.  A path is the *)
(* sequence of its segments, <<"archive", "b.md">> for "archive/b.md"; a    *)
(* folder likewise.  A file of the vault is given as the note indexFile     *)
(* makes of it.  A pass yields between its batches; the event handlers are  *)
(* those of a plugin that is still initialising (they return at once).      *)
(***************************************************************************)
batchSize == 1          \* files per batch (10 in the program)
MaxIndexCalls == 3      \* number of Re-index vault commands explored
MaxPassFailures == 1    \* number of passes that end with an error

IndexNow == T0 + 3 * TimeStep

NoteInbox == [path |-> <<"a.md">>, title |-> <<"Report">>,
              dates |-> << [field |-> "due", value |-> T0 + 4 * TimeStep] >>]
NoteArchived == [path |-> <<"archive", "b.md">>, title |-> <<"Plan">>,
                 dates |-> << [field |-> "due", value |-> T0 + 5 * TimeStep] >>]
NoteDraft == [path |-> <<"drafts", "c.md">>, title |-> <<"Draft">>,
              dates |-> << [field |-> "due", value |-> T0 + 6 * TimeStep] >>]

VaultFiles == <<NoteInbox, NoteArchived, NoteDraft>>

\* settings.indexingScope and settings.includedFolders (the defaults)
indexingScope == "entire-vault"
includedFolders == {}

\* file.path.startsWith(folder + '/') || file.path === folder
InFolder(path, folder) ==
    \/ Len(folder) < Len(path) /\ SubSeq(path, 1, Len(folder)) = folder
    \/ path = folder

shouldIndexFile(path, excluded) ==
    IF \E folder \in excluded : InFolder(path, folder) THEN FALSE
    ELSE IF /\ indexingScope = "selected-folders"
            /\ ~(\E folder \in includedFolders : InFolder(path, folder))
            /\ includedFolders # {}
         THEN FALSE
         ELSE TRUE

filterFiles(files, excluded) ==
    SelectSeq(files, LAMBDA file : shouldIndexFile(file.path, excluded))

PathsOf(notes) == {notes[k].path : k \in 1 .. Len(notes)}

\* this.index.notes.set(path, noteIndex)
MapSetNote(notes, note) ==
    IF note.path \in PathsOf(notes)
    THEN [k \in 1 .. Len(notes) |-> IF notes[k].path = note.path THEN note ELSE notes[k]]
    ELSE Append(notes, note)

\* indexFile(file): no metadata or no content for a file that is gone
indexFile(notes, path, files) ==
    IF path \in PathsOf(files)
    THEN MapSetNote(notes, CHOOSE note \in {files[k] : k \in 1 .. Len(files)} :
                               note.path = path)
    ELSE notes

\* one batch: await Promise.all(batch.map(file => this.indexFile(file)))
RECURSIVE IndexBatchFrom(_, _, _, _, _)
IndexBatchFrom(notes, paths, i, last, files) ==
    IF i > last \/ i > Len(paths) THEN notes
    ELSE IndexBatchFrom(indexFile(notes, paths[i], files), paths, i + 1, last, files)

\* the persisted settings of this plugin (privacy mode on: no schedule key)
IndexerBlob(excluded) ==
    [rules |-> rules, privacyMode |-> TRUE, schedule |-> << >>,
     notificationsPaused |-> FALSE, excludedFolders |-> excluded]

InitIndexer ==
    /\ now = IndexNow
    /\ rules = <<RuleDueNone>>
    /\ vault = VaultFiles
    /\ excludedFolders \in {{}, {<<"templates">>}}
    /\ index \in {<< >>, filterFiles(vault, excludedFolders)}
    /\ schedule = << >>
    /\ gen = 0
    /\ checkInterval = 0
    /\ isPaused = FALSE
    /\ timers = {}
    /\ nextHandle = 1
    /\ lastOp = "init"
    /\ checked = FALSE
    /\ batch = << >>
    /\ deliveries = << >>
    /\ pausedAt = NoDate
    /\ stopped = FALSE
    /\ CalcIdle
    /\ GenIdle
    /\ ModalIdle
    /\ aborted = FALSE
    /\ DeliverIdle
    /\ clockMs = 0
    /\ isInitializing \in BOOLEAN
    /\ rebuildDebounceTimer = 0
    /\ timeouts = {}
    /\ nextTimeout = 1
    /\ indexing = 0
    /\ events = 0
    /\ lastEventAt = NoDate
    /\ burst = TRUE
    /\ rebuilds = 0
    /\ phase = "ready"
    /\ privacyMode = TRUE
    /\ disk = IndexerBlob(excludedFolders)
    /\ loadedSchedule = << >>
    /\ editor = << >>
    /\ passedRules = << >>
    /\ edits = 0
    /\ notificationsPaused = FALSE
    /\ tasks = << >>
    /\ indexingInProgress = FALSE
    /\ passes = << >>
    /\ passLog = [started |-> 0, early |-> 0, failed |-> 0]

IndexerFrame ==
    UNCHANGED <<now, rules, checkInterval, isPaused, timers, nextHandle, stopped, calcVars,
                delivVars, debRest, modalVars, aborted, phase, privacyMode, loadedSchedule,
                editor, edits, notificationsPaused, tasks>>

\* the indexer as a call leaves it
IndexerBecomes(running, flag, log) ==
    /\ passes' = running
    /\ indexingInProgress' = flag
    /\ passLog' = log

\* this.scheduler.generateSchedule(this.settings.rules, this.indexer.getIndex())
GenerateFromIndex ==
    /\ gen' = gen + 1
    /\ schedule' = generateSchedule(rules, index, now, gen + 1)
    /\ passedRules' = rules
    /\ GenerateHistory

NoGenerateFromIndex ==
    /\ PluginQuiet
    /\ UNCHANGED <<gen, passedRules>>

\* indexVault() past its guard: the flag is set and the files to index are
\* taken from the vault
PassStarted(running, log, caller, excluded) ==
    IndexerBecomes(
        Append(running, [files |-> [k \in 1 .. Len(filterFiles(vault, excluded)) |->
                                        filterFiles(vault, excluded)[k].path],
                         next |-> 1, caller |-> caller]),
        TRUE, [log EXCEPT !.started = @ + 1])

\* rebuildSchedule from its test of the index size on: with an empty index
\* await indexVault(), which returns at once when a pass is under way; then
\* generateSchedule
RebuildIndexVault(running, flag, log, excluded) ==
    IF Len(index) = 0 /\ ~flag
    THEN /\ PassStarted(running, log, "rebuild", excluded)
         /\ NoGenerateFromIndex
    ELSE /\ IndexerBecomes(running, flag,
                           IF Len(index) = 0 THEN [log EXCEPT !.early = @ + 1] ELSE log)
         /\ GenerateFromIndex

\* rebuildSchedule(): nothing while the plugin is initialising
rebuildSchedule(running, flag, log, excluded) ==
    IF isInitializing
    THEN /\ IndexerBecomes(running, flag, log)
         /\ NoGenerateFromIndex
    ELSE RebuildIndexVault(running, flag, log, excluded)

\* the Re-index vault command: await indexVault(); await rebuildSchedule()
ReindexCommand ==
    /\ passLog.started + passLog.early < MaxIndexCalls
    /\ lastOp' = "reindexCommand"
    /\ IF indexingInProgress
       THEN rebuildSchedule(passes, indexingInProgress,
                            [passLog EXCEPT !.early = @ + 1], excludedFolders)
       ELSE /\ PassStarted(passes, passLog, "command", excludedFolders)
            /\ NoGenerateFromIndex
    /\ UNCHANGED <<index, vault, excludedFolders, isInitializing, disk>>
    /\ IndexerFrame

\* a batch of a pass has been indexed
IndexBatch ==
    /\ \E p \in 1 .. Len(passes) :
          /\ passes[p].next <= Len(passes[p].files)
          /\ index' = IndexBatchFrom(index, passes[p].files, passes[p].next,
                                     passes[p].next + batchSize - 1, vault)
          /\ passes' = [passes EXCEPT ![p].next = @ + batchSize]
    /\ lastOp' = "indexBatch"
    /\ NoGenerateFromIndex
    /\ UNCHANGED <<vault, excludedFolders, isInitializing, disk, indexingInProgress, passLog>>
    /\ IndexerFrame

\* what the caller of a pass does when indexVault returns
AfterPass(caller, running, log) ==
    IF caller = "command"
    THEN rebuildSchedule(running, FALSE, log, excludedFolders)
    ELSE /\ IndexerBecomes(running, FALSE, log)
         /\ GenerateFromIndex

WithoutPass(p) == SubSeq(passes, 1, p - 1) \o SubSeq(passes, p + 1, Len(passes))

\* the last batch is done: lastIndexed is set, finally { indexingInProgress =
\* false }, and indexVault returns to its caller
PassEnds ==
    /\ \E p \in 1 .. Len(passes) :
          /\ passes[p].next > Len(passes[p].files)
          /\ AfterPass(passes[p].caller, WithoutPass(p), passLog)
    /\ lastOp' = "passDone"
    /\ UNCHANGED <<index, vault, excludedFolders, isInitializing, disk>>
    /\ IndexerFrame

\* (a pass whose error path leaves the flag set)
PassThrows_keepsFlag ==
    /\ passLog.failed < MaxPassFailures
    /\ \E p \in 1 .. Len(passes) :
          /\ IndexerBecomes(WithoutPass(p), TRUE, [passLog EXCEPT !.failed = @ + 1])
          /\ NoGenerateFromIndex
    /\ lastOp' = "passFailed"
    /\ UNCHANGED <<index, vault, excludedFolders, isInitializing, disk>>
    /\ IndexerFrame

\* an error inside the try block of a pass: catch logs it, finally {
\* indexingInProgress = false }, and indexVault returns to its caller
PassThrows ==
    /\ passLog.failed < MaxPassFailures
    /\ \E p \in 1 .. Len(passes) :
          AfterPass(passes[p].caller, WithoutPass(p), [passLog EXCEPT !.failed = @ + 1])
    /\ lastOp' = "passFailed"
    /\ UNCHANGED <<index, vault, excludedFolders, isInitializing, disk>>
    /\ IndexerFrame

\* a file is deleted while the plugin is initialising: the 'delete' handler
\* returns at its first statement
DeleteDuringInit ==
    /\ isInitializing
    /\ \E k \in 1 .. Len(vault) :
          vault' = SubSeq(vault, 1, k - 1) \o SubSeq(vault, k + 1, Len(vault))
    /\ lastOp' = "deleteFile"
    /\ NoGenerateFromIndex
    /\ UNCHANGED <<index, excludedFolders, isInitializing, disk, indexingInProgress,
                   passes, passLog>>
    /\ IndexerFrame

\* the settings tab adds a folder to the excluded folders:
\* excludedFolders.push(folderPath); await saveSettings()
ExcludeFolder ==
    /\ \E folder \in {<<"archive">>, <<"drafts">>} \ excludedFolders :
          /\ excludedFolders' = excludedFolders \cup {folder}
          /\ disk' = IndexerBlob(excludedFolders')
          /\ rebuildSchedule(passes, indexingInProgress, passLog, excludedFolders')
    /\ lastOp' = "excludeFolder"
    /\ UNCHANGED <<index, vault, isInitializing>>
    /\ IndexerFrame

NextIndexer ==
    \/ ReindexCommand
    \/ IndexBatch
    \/ PassEnds
    \/ PassThrows
    \/ DeleteDuringInit
    \/ ExcludeFolder
    \/ InitTimerFires

SpecIndexer == InitIndexer /\ [][NextIndexer]_vars

(***************************************************************************)
(* The plugin from the end of the workspace-ready handler to after its      *)
(* unload: the document events and timers of the debounce next to onunload. *)
(* The event handlers are registered with registerEvent and are detached    *)
(* by the unload; the timers made with setTimeout are not.                  *)
(***************************************************************************)
InitUnload ==
    /\ now = T0
    /\ rules \in {<<RuleDueNone>>, <<RuleDueDaily>>}
    /\ index = <<NoteA, NoteB>>
    /\ schedule = << >>
    /\ gen = 0
    /\ checkInterval = 1
    /\ isPaused = FALSE
    /\ timers = {[handle |-> 1, due |-> T0 + checkIntervalMs \div MsPerSec]}
    /\ nextHandle = 2
    /\ lastOp = "init"
    /\ checked = FALSE
    /\ batch = << >>
    /\ deliveries = << >>
    /\ pausedAt = NoDate
    /\ stopped = FALSE
    /\ CalcIdle
    /\ GenIdle
    /\ ModalIdle
    /\ aborted = FALSE
    /\ DeliverIdle
    /\ clockMs = 0
    /\ isInitializing = TRUE
    /\ rebuildDebounceTimer = 0
    /\ timeouts = {}
    /\ nextTimeout = 1
    /\ indexing = 0
    /\ events = 0
    /\ lastEventAt = NoDate
    /\ burst = TRUE
    /\ rebuilds = 0
    /\ phase = "ready"
    /\ privacyMode = FALSE
    /\ disk = [rules |-> rules, privacyMode |-> FALSE, schedule |-> << >>,
               notificationsPaused |-> FALSE]
    /\ loadedSchedule = << >>
    /\ editor = << >>
    /\ passedRules = << >>
    /\ edits = 0
    /\ notificationsPaused = FALSE
    /\ LateIdle

\* a document event reaches its handler only while the plugin is loaded
ModifyWhileLoaded == phase = "ready" /\ ModifyEvent
DeleteWhileLoaded == phase = "ready" /\ DeleteEvent

NextUnload ==
    \/ FinishInitializing
    \/ ModifyWhileLoaded
    \/ IndexingDone
    \/ DeleteWhileLoaded
    \/ DebounceFire
    \/ AdvanceClock
    \/ OnUnload

SpecUnload == InitUnload /\ [][NextUnload]_vars

(***************************************************************************)
(* Properties                                                               *)
(***************************************************************************)
Positions(store) == 1 .. Len(store)

InBatch(id, delivered) == \E i \in 1 .. Len(delivered) : delivered[i].id = id

\* C1: the due-check delivers an occurrence only if it is unfired and its
\* fireTime is at or before the current time.
C1_DueCheckDeliversOnlyDue ==
    checked => \A i \in 1 .. Len(batch) : ~batch[i].fired /\ batch[i].fireTime <= now

C1_Witness == lastOp = "tick" /\ checked /\ Len(batch) > 0

\* C2: right after a due-check pass, getDueOccurrences returns none of the
\* occurrences the pass delivered, and no occurrence of the store has been
\* delivered by the due-check more than once.
C2_ExactlyOncePerCycle ==
    /\ checked =>
          \A i \in 1 .. Len(batch) : ~InBatch(batch[i].id, getDueOccurrences(schedule, now))
    /\ \A k \in Positions(schedule) : deliveries[k] <= 1

C2_Witness ==
    /\ lastOp = "start"
    /\ checked
    /\ \E k \in Positions(schedule) :
          InBatch(schedule[k].id, batch) /\ schedule[k].fired /\ deliveries[k] = 1

\* C3: with the dispatcher started and not paused and the rules and the index
\* unchanged, no step loses a due occurrence: an occurrence that is unfired
\* and due is delivered by the step or is still in the store, unfired, with
\* the same fire time.
SameOccurrence(a, b) ==
    /\ a.ruleId = b.ruleId
    /\ a.notePath = b.notePath
    /\ a.originalDate = b.originalDate
    /\ a.fireTime = b.fireTime

C3_NoDueOccurrenceLost ==
    [][(checkInterval # 0 /\ ~isPaused /\ rules' = rules /\ index' = index) =>
          \A k \in Positions(schedule) :
              IsDue(schedule[k], now) =>
                  \/ checked' /\ InBatch(schedule[k].id, batch')
                  \/ \E j \in Positions(schedule') :
                        SameOccurrence(schedule'[j], schedule[k]) /\ ~schedule'[j].fired
      ]_vars

\* C4: resume() on a paused, running dispatcher delivers, in its own due-check,
\* every unfired occurrence whose fireTime fell inside the paused interval,
\* and that is its only delivery: a fired occurrence is not delivered again.
C4_ResumeCatchesUpOnce ==
    [][/\ (isPaused /\ checkInterval # 0 /\ lastOp' = "resume") =>
            \A k \in Positions(schedule) :
                (~schedule[k].fired /\ pausedAt < schedule[k].fireTime
                    /\ schedule[k].fireTime <= now) =>
                        /\ checked'
                        /\ InBatch(schedule[k].id, batch')
                        /\ schedule'[k].id = schedule[k].id
                        /\ schedule'[k].fired
                        /\ deliveries'[k] = 1
       /\ (gen' = gen) =>
            \A k \in Positions(schedule) :
                schedule[k].fired => ~InBatch(schedule[k].id, batch')
      ]_vars

C4_Witness ==
    /\ lastOp = "resume"
    /\ checkInterval # 0
    /\ pausedAt # NoDate
    /\ \E k \in Positions(schedule) :
          /\ InBatch(schedule[k].id, batch)
          /\ pausedAt < schedule[k].fireTime
          /\ deliveries[k] = 1

\* C5: a timer tick that finds isPaused true delivers nothing and leaves the
\* store unchanged, and the timer keeps running: neither pause() nor the tick
\* cancels it.
TimerHandles(ts) == {tm.handle : tm \in ts}

C5_PausedTickDoesNothing ==
    [][/\ (isPaused /\ lastOp' = "tick") =>
            /\ schedule' = schedule
            /\ deliveries' = deliveries
            /\ ~checked'
            /\ batch' = << >>
            /\ isPaused'
            /\ TimerHandles(timers') = TimerHandles(timers)
       /\ (lastOp' = "pause") =>
            /\ timers' = timers
            /\ schedule' = schedule
      ]_vars

C5_Witness ==
    /\ lastOp = "tick"
    /\ isPaused
    /\ \E k \in Positions(schedule) : IsDue(schedule[k], now)

\* C6: start() on a running dispatcher changes nothing; the first start()
\* runs the due-check itself, before the new timer can tick; at most one
\* periodic timer exists.
C6_StartIdempotent ==
    [][/\ (lastOp' = "start" /\ checkInterval # 0) =>
            /\ UNCHANGED progVars
            /\ ~checked'
       /\ (lastOp' = "start" /\ checkInterval = 0) =>
            /\ checked'
            /\ \A k \in Positions(schedule) :
                  IsDue(schedule[k], now) => InBatch(schedule[k].id, batch')
            /\ \A tm \in timers' : tm.due > now'
       /\ Cardinality(timers') <= 1
       /\ (checkInterval' = 0) = (timers' = {})
      ]_vars

C6_Witness ==
    /\ lastOp = "start"
    /\ ~checked
    /\ checkInterval # 0
    /\ \E k \in Positions(schedule) : IsDue(schedule[k], now)

\* C7 as stated: once stop() has been called, no due-check is performed any
\* more, whatever is called afterwards.
C7_StopIsTerminal == [][stopped => ~checked']_vars

\* C7 as amended: stop() cancels the periodic timer and performs no due-check;
\* while the dispatcher is stopped a due-check is performed only by a later
\* start() or resume(), never by a timer tick.
C7_StopCancelsTimer ==
    [][/\ (lastOp' = "stop") =>
            /\ timers' = {}
            /\ checkInterval' = 0
            /\ ~checked'
            /\ schedule' = schedule
       /\ (checkInterval = 0 /\ checked') => lastOp' \in {"start", "resume"}
      ]_vars

C7_Witness ==
    /\ lastOp = "stop"
    /\ nextHandle > 1
    /\ timers = {}
    /\ \E k \in Positions(schedule) : IsDue(schedule[k], now)

RuleById(ruleList, id) ==
    ruleList[CHOOSE i \in 1 .. Len(ruleList) : ruleList[i].id = id]

\* C8: every occurrence generateSchedule emits for a rule with repeat none has
\* fireTime strictly after the generation time.
C8_NoneRuleStrictlyFuture ==
    [][(gen' # gen) =>
          \A k \in Positions(schedule') :
              RuleById(rules', schedule'[k].ruleId).repeat = "none" =>
                  schedule'[k].fireTime > now'
      ]_vars

\* the number of (extracted date, offset) combinations of a rule
ValidOffsets(rule) ==
    IF Len(rule.offsets) = 0 THEN 1
    ELSE Cardinality({i \in 1 .. Len(rule.offsets) : matchDuration(rule.offsets[i]).ok})

MatchingDates(rule, notes) ==
    {<<n, d>> \in (1 .. Len(notes)) \X (1 .. 2) :
        d <= Len(notes[n].dates) /\ notes[n].dates[d].field = rule.field}

\* C9: for every enabled repeating rule generateSchedule emits exactly one
\* occurrence per (rule, date, offset) combination, with fireTime strictly
\* after the generation time.
C9_RepeatingRuleNextAfterNow ==
    [][(gen' # gen) =>
          \A r \in 1 .. Len(rules') :
              (rules'[r].enabled /\ rules'[r].repeat # "none") =>
                  /\ Cardinality({k \in Positions(schedule') :
                                     schedule'[k].ruleId = rules'[r].id})
                        = Cardinality(MatchingDates(rules'[r], index')) * ValidOffsets(rules'[r])
                  /\ \A k \in Positions(schedule') :
                        schedule'[k].ruleId = rules'[r].id => schedule'[k].fireTime > now'
      ]_vars

MaxK == 80      \* largest number of cadence units tried

PlusUnits(t, k, repeat) ==
    CASE repeat = "daily" -> AddDays(t, k)
      [] repeat = "weekly" -> AddWeeks(t, k)
      [] repeat = "monthly" -> AddMonths(t, k)
      [] repeat = "yearly" -> AddYears(t, k)

\* C10: for a cadence, an instant at or before the reference yields the instant
\* plus the smallest whole number k >= 1 of cadence units that lies strictly
\* after the reference, an instant after the reference is returned unchanged;
\* for none the instant is returned when after the reference, else no result.
C10_NextOccurrenceIsInstantPlusKUnits ==
    (calcResult # NotCalled) =>
        IF calcArgs.repeat = "none"
        THEN calcResult = (IF calcArgs.date > calcArgs.fromDate THEN calcArgs.date ELSE NoDate)
        ELSE IF calcArgs.date > calcArgs.fromDate
        THEN calcResult = calcArgs.date
        ELSE /\ calcResult > calcArgs.fromDate
             /\ \E k \in 1 .. MaxK :
                   /\ calcResult = PlusUnits(calcArgs.date, k, calcArgs.repeat)
                   /\ \A j \in 1 .. (k - 1) :
                         PlusUnits(calcArgs.date, j, calcArgs.repeat) <= calcArgs.fromDate

\* the fields two occurrences are compared on, id and createdAt left out
OccurrenceKey(o) ==
    <<o.ruleId, o.notePath, o.originalDate, o.fireTime, o.message, o.channels, o.fired>>

KeySet(store) == {OccurrenceKey(store[k]) : k \in 1 .. Len(store)}

C12_StoreFullyReplaced ==
    [][(gen' # gen) =>
          /\ schedule' = generated'
          /\ KeySet(schedule') = KeySet(OccurrencesForRules(rules, index, now))
          /\ Len(schedule') = Len(OccurrencesForRules(rules, index, now))
          /\ \A k \in 1 .. Len(schedule') :
                ~schedule'[k].fired /\ schedule'[k].createdAt = now
          /\ Ids(schedule') \cap Ids(schedule) = {}
      ]_vars

C12_Witness ==
    /\ lastOp = "generate"
    /\ replacedFired
    /\ Len(schedule) > 0
    /\ \A k \in 1 .. Len(schedule) : ~schedule[k].fired

ValidOffsetStrings == {P1D_neg, PT10S_neg, PT1H}
InvalidOffsetStrings == {BadOffset, NoP}

\* what a valid offset of the inputs means, written out
ExpectedFireTime(base, offset) ==
    CASE offset = P1D_neg -> AddDays(base, -1)
      [] offset = PT10S_neg -> base - 10
      [] offset = PT1H -> base + SecPerHour

ValidOffsetsOf(rule) == SelectSeq(rule.offsets, LAMBDA o : o \in ValidOffsetStrings)

HasValidOffset(rule) == \E i \in 1 .. Len(rule.offsets) : rule.offsets[i] \in ValidOffsetStrings
HasInvalidOffset(rule) == \E i \in 1 .. Len(rule.offsets) : rule.offsets[i] \in InvalidOffsetStrings

OccurrencesOfRule(store, id) == SelectSeq(store, LAMBDA o : o.ruleId = id)

\* C13: for a rule whose offsets mix valid and invalid duration strings
\* generation completes and calculateFireTimes returns, for every matching
\* date, exactly one fire time per valid offset, in order, and none for the
\* invalid ones; the rule after it is still processed.
C13_InvalidOffsetSkipped ==
    (gen >= 1) =>
        \A r \in 1 .. Len(rules) :
            (rules[r].enabled /\ HasValidOffset(rules[r]) /\ HasInvalidOffset(rules[r])) =>
                /\ Len(candidates[r]) = 1
                /\ \A c \in 1 .. Len(candidates[r]) :
                      /\ Len(candidates[r][c].fireTimes) = Len(ValidOffsetsOf(rules[r]))
                      /\ \A i \in 1 .. Len(candidates[r][c].fireTimes) :
                            candidates[r][c].fireTimes[i]
                              = ExpectedFireTime(candidates[r][c].date.value,
                                                 ValidOffsetsOf(rules[r])[i])
                /\ Len(OccurrencesOfRule(schedule, RuleAfter.id)) = 1

C13_Witness ==
    /\ gen >= 1
    /\ rules[1] = GenMixedYearly
    /\ Len(candidates[1]) = 1
    /\ Len(candidates[1][1].fireTimes) = 3
    /\ Len(OccurrencesOfRule(schedule, GenMixedYearly.id)) = 3

AllOffsetsInvalid(rule) ==
    /\ Len(rule.offsets) > 0
    /\ \A i \in 1 .. Len(rule.offsets) : rule.offsets[i] \in InvalidOffsetStrings

\* C14 as stated: a rule whose offsets are all invalid still yields one fire
\* time, the base time, for each matching date.
C14_AllInvalidFiresAtBase ==
    (gen >= 1) =>
        \A r \in 1 .. Len(rules) :
            (rules[r].enabled /\ AllOffsetsInvalid(rules[r])) =>
                \A c \in 1 .. Len(candidates[r]) :
                    candidates[r][c].fireTimes = <<candidates[r][c].date.value>>

\* C14 as amended: a rule whose offsets list is non-empty and all invalid
\* yields no fire time and no occurrence; the base time is the single fire
\* time only of a rule whose offsets list is empty.
C14_AllInvalidYieldsNothing ==
    (gen >= 1) =>
        \A r \in 1 .. Len(rules) :
            /\ (rules[r].enabled /\ AllOffsetsInvalid(rules[r])) =>
                  /\ \A c \in 1 .. Len(candidates[r]) : candidates[r][c].fireTimes = << >>
                  /\ Len(OccurrencesOfRule(schedule, rules[r].id)) = 0
            /\ (rules[r].enabled /\ Len(rules[r].offsets) = 0) =>
                  \A c \in 1 .. Len(candidates[r]) :
                      candidates[r][c].fireTimes = <<candidates[r][c].date.value>>

C14_Witness ==
    /\ gen >= 1
    /\ rules[1] = GenAllInvalidNone
    /\ Len(candidates[1]) = 1
    /\ candidates[1][1].date.value > now
    /\ Len(OccurrencesOfRule(schedule, RuleAfter.id)) = 1

TimeOfDay(t) == t % SecPerDay

\* C15: for a date written without a time of day and a rule with a
\* defaultTime, every fire time of a whole-day offset has the defaultTime as
\* its time of day; the birthday rule (-P1D, yearly, 09:00) with the date
\* 1985-02-20 and now = 2025-02-01T00:00:00 yields exactly one occurrence,
\* at 2025-02-19T09:00:00.
C15_DefaultTimeApplied ==
    (gen >= 1) =>
        /\ \A r \in 1 .. Len(rules) :
              (rules[r].enabled /\ Len(rules[r].defaultTime) > 0
                    /\ \A i \in 1 .. Len(rules[r].offsets) : rules[r].offsets[i] = P1D_neg) =>
                  \A c \in 1 .. Len(candidates[r]) :
                      ~candidates[r][c].date.rawValue.hasTime =>
                          \A i \in 1 .. Len(candidates[r][c].fireTimes) :
                              TimeOfDay(candidates[r][c].fireTimes[i])
                                = TimeOfDay(combineDateAndTime(candidates[r][c].date.value,
                                                               rules[r].defaultTime))
        /\ (rules[1] = GenBirthday /\ index = <<GenNote(RawDate(1985, 2, 20))>>
                /\ generatedAt = FromCivil(2025, 2, 1, 0, 0, 0)) =>
              /\ Len(OccurrencesOfRule(schedule, GenBirthday.id)) = 1
              /\ OccurrencesOfRule(schedule, GenBirthday.id)[1].fireTime
                    = FromCivil(2025, 2, 19, 9, 0, 0)

YearOf(t) == ToCivil(t).year

\* C16: for an enabled rule with ignoreYear and repeat none, a matching date
\* of a past year still yields an occurrence, in the year of the call or the
\* year after it.
C16_IgnoreYearNormalises ==
    (gen >= 1) =>
        \A r \in 1 .. Len(rules) :
            (rules[r].enabled /\ rules[r].ignoreYear /\ rules[r].repeat = "none") =>
                \A c \in 1 .. Len(candidates[r]) :
                    YearOf(candidates[r][c].date.value) < YearOf(generatedAt) =>
                        \E k \in 1 .. Len(schedule) :
                            /\ schedule[k].ruleId = rules[r].id
                            /\ YearOf(schedule[k].fireTime)
                                  \in {YearOf(generatedAt), YearOf(generatedAt) + 1}

\* C17: the store holds no occurrence of a rule that is disabled in the rule
\* list the schedule was generated from.
C17_DisabledRulesExcluded ==
    \A k \in 1 .. Len(schedule) :
        \A r \in 1 .. Len(rules) :
            rules[r].id = schedule[k].ruleId => rules[r].enabled

C17_Witness ==
    /\ lastOp = "generate"
    /\ Len(schedule) > 0
    /\ \E r \in 1 .. Len(rules) :
          /\ ~rules[r].enabled
          /\ Cardinality(MatchingDates(rules[r], index)) > 0
          /\ \E n \in 1 .. Len(index) : \E d \in 1 .. Len(index[n].dates) :
                index[n].dates[d].field = rules[r].field /\ index[n].dates[d].value > now

AttemptedOn(log, id, channel) ==
    \E i \in 1 .. Len(log) : log[i].id = id /\ log[i].channel = channel

\* C18: in a due-check every channel of every due occurrence is attempted and
\* every due occurrence is marked fired, whether or not a delivery call throws.
C18_ChannelFailuresIndependent ==
    [][(lastOp' = "deliver") =>
          \A k \in 1 .. Len(schedule) :
              IsDue(schedule[k], now) =>
                  /\ \A c \in 1 .. Len(schedule[k].channels) :
                        AttemptedOn(attempts', schedule[k].id, schedule[k].channels[c])
                  /\ schedule'[k].fired
      ]_vars

Unavailable == {"unsupported", "denied", "default"}

\* C19: with the system notification capability unavailable the system
\* channel never throws; a due-check in which no delivery call throws
\* attempts the in-app channel of every due occurrence that has it and marks
\* every due occurrence fired; an occurrence marked fired is not attempted by
\* any later due-check.
C19_SystemUnavailableIsNoError ==
    [][(lastOp' = "deliver") =>
          /\ (permission \in Unavailable) =>
                \A i \in 1 .. Len(attempts') :
                    attempts'[i].channel = "system" =>
                        attempts'[i].outcome \in {"skipped", "requested"}
          /\ (permission \in Unavailable /\ "obsidian" \notin faults) =>
                /\ ~raised'
                /\ \A k \in 1 .. Len(schedule) :
                      IsDue(schedule[k], now) =>
                          /\ schedule'[k].id = schedule[k].id
                          /\ schedule'[k].fired
                          /\ \A c \in 1 .. Len(schedule[k].channels) :
                                AttemptedOn(attempts', schedule[k].id, schedule[k].channels[c])
          /\ \A k \in 1 .. Len(schedule) :
                schedule[k].fired => schedule[k].id \notin AttemptedIds(attempts')
      ]_vars

C19_Witness ==
    /\ lastOp = "deliver"
    /\ permission \in Unavailable
    /\ ~raised
    /\ Len(attempts) >= 2
    /\ attempts[1].channel = "system"
    /\ attempts[1].outcome \in {"skipped", "requested"}
    /\ attempts[2].channel = "obsidian"
    /\ attempts[2].id = attempts[1].id
    /\ \E k \in 1 .. Len(schedule) : schedule[k].id = attempts[1].id /\ schedule[k].fired

\* C20: at most one debounce timer is pending; a rebuild starts only when at
\* least 1 second has passed since the last document-change event; a burst of
\* events, each less than 1 second after the one before, starts at most one
\* rebuild.
C20_RebuildsDebounced ==
    [][/\ Cardinality(timeouts') <= 1
       /\ (rebuilds' # rebuilds) =>
             (lastEventAt # NoDate /\ clockMs - lastEventAt >= DebounceMs)
       /\ burst' => rebuilds' <= 1
      ]_vars


\* C24: applyISO8601Duration fails, and isValidISO8601Duration reports
\* invalid, for every string that is not a duration with at least one
\* component, a bare designator such as "P", "PT", "-P" or "+PT" included, and
\* the two agree on every string.
C24_DurationNeedsComponent ==
    lastOp = "applyISO8601Duration" =>
        /\ (calcArgs.duration \notin WellFormedDurations =>
               calcResult.applied = NoDate /\ ~calcResult.valid)
        /\ (calcResult.valid <=> calcResult.applied # NoDate)

\* the unfired occurrences of the store with a fireTime after t
UpcomingPositions(store, t) ==
    {k \in Positions(store) : ~store[k].fired /\ store[k].fireTime > t}

\* C25: getUpcomingOccurrences(limit) returns the unfired occurrences of the
\* store with fireTime strictly after now, ascending by fireTime, cut to the
\* first limit of them, and leaves the store as it is.
C25_UpcomingListing ==
    [][lastOp' = "upcoming" =>
          /\ schedule' = schedule
          /\ Len(upcoming'.list) =
                Min(upcoming'.limit, Cardinality(UpcomingPositions(schedule, now)))
          /\ \A i \in 1 .. Len(upcoming'.list) :
                /\ \E k \in UpcomingPositions(schedule, now) : schedule[k] = upcoming'.list[i]
                /\ \A j \in 1 .. Len(upcoming'.list) :
                      /\ i < j => upcoming'.list[i].fireTime <= upcoming'.list[j].fireTime
                      /\ i # j => upcoming'.list[i].id # upcoming'.list[j].id
                /\ \A k \in UpcomingPositions(schedule, now) :
                      ~InBatch(schedule[k].id, upcoming'.list) =>
                          upcoming'.list[i].fireTime <= schedule[k].fireTime]_vars

C25_Witness ==
    /\ lastOp = "upcoming"
    /\ Len(upcoming.list) = upcoming.limit
    /\ \E k \in UpcomingPositions(schedule, now) : ~InBatch(schedule[k].id, upcoming.list)
    /\ \E k \in Positions(schedule) : schedule[k].fired

\* the index without the extracted dates that are no dates
IndexWithoutInvalid(notes) ==
    [i \in 1 .. Len(notes) |->
        [notes[i] EXCEPT !.dates = SelectSeq(@, LAMBDA d : ~IsInvalidDate(d.value))]]

C29_FireNowLeavesStore ==
    [][/\ lastOp' = "fireNow" =>
            /\ schedule' = schedule
            /\ deliveries' = deliveries
            /\ \E i \in 1 .. Len(upcoming.list) :
                  /\ firedNow' = firedNow \cup {upcoming.list[i].id}
                  /\ Len(manual') = Len(upcoming.list[i].channels)
                  /\ \A c \in 1 .. Len(manual') :
                        /\ manual'[c].id = upcoming.list[i].id
                        /\ manual'[c].channel = upcoming.list[i].channels[c]
                        /\ manual'[c].outcome = "shown"
       /\ checked' =>
            \A k \in Positions(schedule) :
                (schedule[k].id \in firedNow /\ ~schedule[k].fired
                    /\ schedule[k].fireTime <= now) => InBatch(schedule[k].id, batch')]_vars

C29_Witness ==
    /\ lastOp = "tick"
    /\ \E i \in 1 .. Len(batch) : batch[i].id \in firedNow

\* each token of the template replaced once, by the value of the context
SinglePass(template, context) ==
    Concat([i \in 1 .. Len(template) |->
        IF template[i] = "{title}" THEN context.title
        ELSE IF template[i] = "{field}" THEN <<context.field>>
        ELSE IF template[i] = "{date}" THEN <<context.date>>
        ELSE IF template[i] = "{path}" THEN <<context.path>>
        ELSE <<template[i]>>])

\* C30: the resolved message is the template with each {title}, {field},
\* {date} and {path} token replaced by the title, field, formatted date and
\* path, all other text as it is, and inserted text never substituted again.
C30_SinglePassSubstitution ==
    lastOp = "resolveMessageTemplate" =>
        calcResult = SinglePass(calcArgs.template, calcArgs)


\* C28: a document change, at whatever moment after the plugin loaded, is
\* followed by a regeneration of the schedule once the index has been updated
\* for the document.
C28_ChangeEventuallyRegenerated ==
    (lastOp \in {"modify", "delete"})
        ~> (lastOp = "rebuild" /\ ~isInitializing /\ indexing = 0)


RuleMutations == {"toggleRule", "deleteRule", "saveRule"}

\* C21: after a rule was added, edited, deleted, enabled or disabled and the
\* settings were saved, the store is the result of generateSchedule over the
\* mutated rule list, at whatever moment of the plugin's life.
C21_MutationRegenerates ==
    lastOp \in RuleMutations =>
        /\ passedRules = rules
        /\ schedule = generateSchedule(rules, IF Len(index) = 0 THEN Vault ELSE index,
                                       now, gen)

\* the occurrences of a list that were generated in this session
SessionOccurrences(list) == {list[k] : k \in {j \in 1 .. Len(list) : list[j].id[1] >= 1}}

C23_PersistedImportedVerbatim ==
    [][/\ (lastOp' = "onload" /\ ~disk.privacyMode) =>
             /\ schedule' = disk.schedule
             /\ checkInterval' = 0
             /\ gen' = 0
       /\ lastOp' = "layoutReady" =>
             /\ gen = 0
             /\ checkInterval = 0
             /\ schedule \in {loadedSchedule, << >>}
             /\ checked'
             /\ \A k \in Positions(schedule) :
                   /\ schedule[k].fired =>
                         ~InBatch(schedule[k].id, batch') /\ schedule'[k] = schedule[k]
                   /\ (~schedule[k].fired /\ schedule[k].fireTime <= now) =>
                         InBatch(schedule[k].id, batch')
      ]_vars

C23_Witness ==
    /\ lastOp = "layoutReady"
    /\ Len(batch) > 0
    /\ \E k \in Positions(schedule) :
          /\ schedule[k] \in {loadedSchedule[j] : j \in 1 .. Len(loadedSchedule)}
          /\ schedule[k].fired
          /\ schedule[k].fireTime <= now
          /\ deliveries[k] = 0

\* C27: every rule of a rule list passed to generateSchedule passes
\* RuleValidator.validateRule, also after a rule editor was opened on a rule,
\* changed and then cancelled or rejected.
C27_OnlyValidRulesGenerated ==
    \A i \in 1 .. Len(passedRules) : validateRule(passedRules[i]) = {}

\* C31: with "+D" applied to an instant and "-D" applied to the result, the
\* instant comes back, for every duration D of weeks, days, hours, minutes
\* and seconds only (local time without daylight-saving changes); "-D" moves
\* an instant back by exactly what "+D" moves it forward.
C31_OffsetRoundTrip ==
    (lastOp = "applyBack" /\ calcArgs.duration \in FixedLengthBodies) =>
        /\ calcResult.back = calcArgs.date
        /\ calcResult.forward > calcArgs.date
        /\ applyISO8601Duration(calcArgs.date, <<"-">> \o calcArgs.duration)
               = calcArgs.date - (calcResult.forward - calcArgs.date)

\* (the same for every duration: fails on the durations with months or years)
C31_AnyDuration ==
    lastOp = "applyBack" => calcResult.back = calcArgs.date

C31_Witness ==
    /\ lastOp = "applyBack"
    /\ calcArgs.duration = <<"P", "1", "W", "3", "D", "T", "2", "H", "5", "S">>
    /\ calcResult.forward = calcArgs.date + 10 * SecPerDay + 2 * SecPerHour + 5
    /\ calcResult.back = calcArgs.date

\* the base time calculateFireTimes works from: the matched date, moved to the
\* default time when its ISO string shows no time of day
BaseTimeOf(originalDate, defaultTime) ==
    IF Len(defaultTime) > 0 /\ ~hasTimeComponent(toISOString(originalDate))
    THEN originalDate - (originalDate % SecPerDay)
             + parseInt(defaultTime, 1, 3) * SecPerHour
             + parseInt(defaultTime, 4, 6) * SecPerMin
    ELSE originalDate

AllOffsetsValid(offsets) ==
    \A i \in 1 .. Len(offsets) : matchDuration(offsets[i]).ok

\* C32: with an empty offsets list calculateFireTimes returns exactly one
\* candidate, the base time; with n >= 1 offsets that are all valid it returns
\* exactly n candidates, the i-th being the base time moved by the i-th
\* offset, equal offsets giving equal candidates, and no further candidate at
\* the base time.
C32_OneCandidatePerOffset ==
    lastOp = "calculateFireTimes" =>
        LET base == BaseTimeOf(calcArgs.originalDate, calcArgs.defaultTime)
        IN  /\ (Len(calcArgs.offsets) = 0 => calcResult = <<base>>)
            /\ (Len(calcArgs.offsets) > 0 /\ AllOffsetsValid(calcArgs.offsets) =>
                   /\ Len(calcResult) = Len(calcArgs.offsets)
                   /\ \A i \in 1 .. Len(calcResult) :
                         calcResult[i] = applyISO8601Duration(base, calcArgs.offsets[i]))

C32_Witness ==
    /\ lastOp = "calculateFireTimes"
    /\ calcArgs.offsets = <<P1D_neg, P1D_neg>>
    /\ calcArgs.defaultTime = HHMM0900
    /\ calcArgs.originalDate = FromCivil(2025, 2, 20, 0, 0, 0)
    /\ calcResult = <<FromCivil(2025, 2, 19, 0, 0, 0), FromCivil(2025, 2, 19, 0, 0, 0)>>

\* the ids of the fired occurrences of a store
FiredIds(store) == {store[k].id : k \in {j \in 1 .. Len(store) : store[j].fired}}

\* C33: generateSchedule creates every occurrence unfired; between two
\* generateSchedule calls an occurrence of the store changes in its fired flag
\* only, from false to true only, and only in a step that ran the due-check
\* and handed the occurrence to fireNotification; markAsFired with the id of a
\* fired occurrence or with an id not in the store leaves the store as it is.
C33_FiredOwnedByDueCheck ==
    [][/\ (gen' # gen) => \A k \in 1 .. Len(schedule') : ~schedule'[k].fired
       /\ (gen' = gen) =>
             /\ Len(schedule') = Len(schedule)
             /\ \A k \in 1 .. Len(schedule) :
                   /\ schedule'[k] = [schedule[k] EXCEPT !.fired = schedule'[k].fired]
                   /\ schedule[k].fired => schedule'[k].fired
                   /\ (schedule'[k].fired /\ ~schedule[k].fired) =>
                         /\ checked'
                         /\ lastOp' \in {"start", "resume", "tick"}
                         /\ InBatch(schedule[k].id, batch')
       /\ \A id \in FiredIds(schedule') \cup {generateId(MaxGen + 1, 1)} :
             markAsFired(schedule', id) = schedule'
      ]_vars

C33_Witness ==
    /\ lastOp = "fireNow"
    /\ firedNow # {}
    /\ \E k \in Positions(schedule) : schedule[k].fired /\ deliveries[k] = 1
    /\ \E k \in Positions(schedule) : ~schedule[k].fired /\ schedule[k].id \in firedNow

\* C34: the advancement of a candidate fire time ends: the loop of
\* getNextOccurrence returns after finitely many additions of one cadence
\* unit, and the loop around it is left after at most one getNextOccurrence
\* call that returned a date, or at once after a call that returned null; a
\* fire time that was advanced lies after the reference instant.
C34_AdvancementTerminates ==
    /\ <>(calcResult.pc = "exit")
    /\ [](/\ calcResult.calls <= 1
          /\ calcResult.nulls <= 1
          /\ calcResult.calls + calcResult.nulls <= 1
          /\ calcResult.nulls = 1 => calcResult.pc = "exit"
          /\ calcResult.calls = 1 => calcResult.fireTime > calcArgs.now)

C34_Witness ==
    /\ calcResult.pc = "exit"
    /\ calcResult.calls = 1
    /\ calcArgs.repeat = "monthly"
    /\ calcArgs.fireTime = FromCivil(2024, 1, 31, 9, 0, 0)
    /\ calcArgs.now = FromCivil(2025, 3, 10, 9, 0, 0)
    /\ calcResult.fireTime = FromCivil(2025, 3, 28, 9, 0, 0)

\* C35: when the workspace-ready handler reaches dispatcher.start(),
\* generateSchedule has run over the index the initial indexVault produced:
\* the handler's step makes a generateSchedule call with the current rules,
\* and the store the initial due-check works on was created by that call.
C35_StartupBuildsBeforeStart ==
    [][lastOp' = "layoutReady" =>
          /\ gen' = gen + 1
          /\ passedRules' = rules
          /\ \A k \in 1 .. Len(schedule') : schedule'[k].createdAt = now
      ]_vars

\* (what the handler does do: it indexes the vault and starts the dispatcher,
\* whose immediate due-check runs on the store as onload left it)
C35_StartsOnLoadedStore ==
    [][lastOp' = "layoutReady" =>
          /\ index' = Vault
          /\ checkInterval' # 0
          /\ checked'
          /\ gen' = gen
          /\ Ids(schedule') = Ids(schedule)
      ]_vars

\* C36: with notificationsPaused persisted as true, no notification is
\* delivered from the load of the plugin on, as long as the user has not
\* resumed: no step hands an occurrence to fireNotification.
C36_PausedAtStartupDeliversNothing ==
    [][(disk.notificationsPaused /\ phase \in {"constructed", "loaded"}) => batch' = << >>]_vars

\* (what the handler does do: the dispatcher is paused when the handler ends)
C36_PausedAfterStartup ==
    [][(lastOp' = "layoutReady" /\ notificationsPaused) => isPaused']_vars

\* C37: once every save that was started has completed, the persisted
\* settings are the settings in memory; the persisted notificationsPaused is
\* the paused state of the dispatcher.
C37_NoLostSettingsUpdate ==
    tasks = << >> =>
        /\ disk.notificationsPaused = notificationsPaused
        /\ disk.notificationsPaused = isPaused
        /\ disk.rules = rules
        /\ disk.privacyMode = privacyMode

\* (in memory the setting and the dispatcher agree; a pending blob of
\* saveSchedule is the blob it read with the schedule replaced)
C37_MemoryAgrees ==
    /\ isPaused = notificationsPaused
    /\ \A i \in 1 .. Len(tasks) :
          tasks[i].pc = "writeSettings" => tasks[i].data.schedule = loadedSchedule

\* C38: at most one indexVault pass is under way; an indexVault call made
\* during a pass starts no pass and leaves the index as the pass has built it
\* so far; indexingInProgress is true exactly while a pass is under way, also
\* after a pass that ended with an error.
C38_OnePassAtATime ==
    [][/\ Len(passes') <= 1
       /\ indexingInProgress' <=> (Len(passes') = 1)
       /\ (passLog'.early > passLog.early) =>
             /\ Len(passes) = 1
             /\ passes' = passes
             /\ index' = index
       /\ (passLog'.started > passLog.started) => ~indexingInProgress \/ Len(passes') = 1
      ]_vars

C38_Witness ==
    /\ lastOp = "reindexCommand"
    /\ passLog.failed = 1
    /\ passLog.early >= 1
    /\ passLog.started = 2
    /\ indexingInProgress
    /\ Len(passes) = 1

\* the paths of the files of the vault that pass the folder filters
EligiblePaths == PathsOf(filterFiles(vault, excludedFolders))

\* C39: when an indexVault pass has completed, the index has an entry for
\* exactly the files that exist and pass the folder filters, and the
\* regeneration that follows emits no occurrence for another document.
C39_IndexMatchesVault ==
    lastOp = "passDone" =>
        /\ PathsOf(index) = EligiblePaths
        /\ \A k \in 1 .. Len(schedule) : schedule[k].notePath \in EligiblePaths

\* (a completed pass does index every file that exists and passes the filters)
C39_EligibleIndexed ==
    lastOp = "passDone" => EligiblePaths \subseteq PathsOf(index)

\* C40: after onunload nothing runs any more: no step of an unloaded plugin
\* runs a due-check, delivers, calls generateSchedule or writes the persisted
\* blob, whatever timers and handlers were pending at the unload.
C40_QuiescentAfterUnload ==
    [][phase = "unloaded" =>
          /\ ~checked'
          /\ batch' = << >>
          /\ gen' = gen
          /\ rebuilds' = rebuilds
          /\ schedule' = schedule
          /\ disk' = disk
      ]_vars

\* (the part that does hold: the unload cancels the dispatcher's timer, and
\* no due-check and no delivery follows)
C40_DispatcherStopped ==
    [][phase' = "unloaded" =>
          /\ timers' = {}
          /\ checkInterval' = 0
          /\ ~checked'
          /\ batch' = << >>
      ]_vars

====
